---------------------------- MODULE Spec2Model ----------------------------
(***************************************************************************)
(* Ledger / interest-allocation core of gestao.py (Gestao Financeira       *)
(* Escolar - PDDE).                                                        *)
(*                                                                         *)
(* State: the session's in-memory accounts map (st.session_state           *)
(* ['accounts']), the durable account collection 'pdde_contas', the cached *)
(* database handle, the list of fiscal years, plus a record of the last    *)
(* user action and a count of the actions taken.  A second browser session *)
(* on the same store is kept as the accounts map, the list of empenhos and *)
(* the years it holds (outra, empenhos_outra, anos_outra).  The list of    *)
(* empenhos is kept in the session (empenhos_global) and in the document   *)
(* 'pdde_dados_gerais/empenhos' (empenhos_doc).  A store rename under way  *)
(* is kept with the store call it has reached (renomeando), and so is a    *)
(* reload of the session (recarregando).                                   *)
(*                                                                         *)
(* Money is a Python float in the source, and a float in the model: sums,  *)
(* differences, products and quotients are rounded as IEEE 754 binary64    *)
(* rounds them, in the order the source evaluates them.                    *)
(***************************************************************************)
EXTENDS Integers, Sequences, FiniteSets, TLC

VARIABLES accounts, store, db_conn, available_years, last, nops, outra, empenhos_doc, empenhos_global, renomeando, recarregando, empenhos_outra, anos_outra

vars == <<accounts, store, db_conn, available_years, last, nops, outra, empenhos_doc, empenhos_global, renomeando, recarregando, empenhos_outra, anos_outra>>

-----------------------------------------------------------------------------
(* Bounds of the model and program constants                               *)

\* datetime.now().year
CurrentYear == 2026

\* longest run of user actions explored
MaxOps == 2

\* document ids of the collection 'pdde_contas' typed by the user
Contas == {"A1", "A2"}

\* program labels typed by the user
Programas == {"P1", "P2"}

\* years the user may add as an exercise (number_input 2000..2050)
AnosNovos == {CurrentYear - 1}

\* the years balances are asked for: those the user may add, the year of
\* a stored empenho and the current year
Anos == AnosNovos \cup {CurrentYear - 2} \cup {CurrentYear}

\* months offered by the month selectbox that the model explores (of 1..12)
Meses == {1, 2}

\* bank-reported interest totals typed by the user in the session (the
\* engine is run on negative and zero totals in SpecRateio)
Rendimentos == {4}

\* per-program credit/debit inputs typed by the user (all >= 0)
Entradas ==
  { [cred_cap |-> 0, cred_cus |-> 0, deb_cap |-> 0, deb_cus |-> 0],
    [cred_cap |-> 3, cred_cus |-> 0, deb_cap |-> 0, deb_cus |-> 1] }

\* opening balances <<Capital, Custeio>> typed by the user
SaldosOpcoes == { <<1, 0>>, <<-1, 2>> }

TiposRecurso == {"Capital", "Custeio", "Total"}

-----------------------------------------------------------------------------
(* Python floats (IEEE 754 binary64, round to nearest, ties to even)         *)
(*                                                                         *)
(* A float is <<s, e, h, l>>: sign s (1: negative), and the value          *)
(* (h * 2^27 + l) * 2^e, the 53-bit significand h * 2^27 + l having its    *)
(* highest bit set (2^25 <= h < 2^26, 0 <= l < 2^27).  0.0 is              *)
(* <<0, 0, 0, 0>> and -0.0 is <<1, 0, 0, 0>>.  Every float has one         *)
(* representation, so = on tuples tells -0.0 from 0.0 and is otherwise     *)
(* Python's ==.  The amounts of the model stay far from overflow and       *)
(* from the subnormal range, which are not modelled.                       *)

\* 0.0
FZero == <<0, 0, 0, 0>>

\* x is 0.0 or -0.0
EhZero(x) == x[3] = 0 /\ x[4] = 0

\* -x
FNeg(x) == <<1 - x[1], x[2], x[3], x[4]>>

\* int.bit_length() of a natural number
RECURSIVE BitLen(_)
BitLen(n) == IF n = 0 THEN 0 ELSE 1 + BitLen(n \div 2)

\* the float of sign s and magnitude a, a natural number of k bits
FloatDe(s, a, k) == <<s, k - 53, a * 2^(26 - k), 0>>

\* float(n) of an integer below 2^26 in magnitude: exact
Float(n) ==
  IF n = 0 THEN FZero
  ELSE IF n < 0 THEN FloatDe(1, -n, BitLen(-n))
  ELSE FloatDe(0, n, BitLen(n))

\* abs(x) < abs(y), neither being zero
MagMenor(x, y) ==
  \/ x[2] < y[2]
  \/ x[2] = y[2] /\ (x[3] < y[3] \/ (x[3] = y[3] /\ x[4] < y[4]))

\* the significand followed by three zero bits (guard, round, sticky), as
\* two halves of 28 bits
Largo(x) == <<x[3] * 4 + (x[4] \div 2^25), (x[4] % 2^25) * 8>>

\* the sticky bit: a 1 lost in a shift is kept in the lowest bit
Jam(l, perdido) == IF perdido /\ l % 2 = 0 THEN l + 1 ELSE l

\* w shifted right by d bits, the bits that fall off kept as the sticky bit
DeslocaJam(w, d) ==
  IF d = 0 THEN w
  ELSE IF d < 28
    THEN <<w[1] \div 2^d, Jam((w[2] \div 2^d) + (w[1] % 2^d) * 2^(28 - d), (w[2] % 2^d) # 0)>>
  ELSE IF d < 56
    THEN <<0, Jam(w[1] \div 2^(d - 28), (w[1] % 2^(d - 28)) # 0 \/ w[2] # 0)>>
  ELSE <<0, 1>>

\* the float of sign s, exponent e and significand h * 2^27 + l, plus one
\* unit in the last place when sobe
Empacota(s, e, h, l, sobe) ==
  IF ~sobe THEN <<s, e, h, l>>
  ELSE IF l + 1 < 2^27 THEN <<s, e, h, l + 1>>
  ELSE IF h + 1 < 2^26 THEN <<s, e, h + 1, 0>>
  ELSE <<s, e + 1, 2^25, 0>>

\* round to nearest, ties to even, on the three bits grs that follow l
Desempata(s, e, h, l, grs) == Empacota(s, e, h, l, grs > 4 \/ (grs = 4 /\ l % 2 = 1))

\* the 56-bit w * 2^e as a float
Arredonda(s, w, e) ==
  Desempata(s, e + 3, w[1] \div 4, (w[1] % 4) * 2^25 + (w[2] \div 8), w[2] % 8)

\* w shifted left until its highest bit is bit 55 (after a cancellation)
RECURSIVE NormalizaEsq(_, _)
NormalizaEsq(w, e) ==
  IF w[1] >= 2^27 THEN <<w, e>>
  ELSE IF w[1] = 0 THEN NormalizaEsq(<<w[2], 0>>, e - 28)
  ELSE IF w[1] < 2^14
    THEN NormalizaEsq(<<w[1] * 2^14 + (w[2] \div 2^14), (w[2] % 2^14) * 2^14>>, e - 14)
  ELSE NormalizaEsq(<<w[1] * 2 + (w[2] \div 2^27), (w[2] % 2^27) * 2>>, e - 1)

\* w brought to 56 bits: one bit to the right after a carry out of bit 55,
\* to the left after a cancellation
Normaliza(w, e) ==
  IF w[1] >= 2^28 THEN <<DeslocaJam(w, 1), e + 1>> ELSE NormalizaEsq(w, e)

\* the normalised pair n = <<w, e>> as a float
ArredondaNormal(s, n) == Arredonda(s, n[1], n[2])

\* the float of sign s and magnitude (h * 2^28 + l) * 2^(e - 3), the carry
\* or borrow of the low half l taken up; a difference of 0 is 0.0
SomaLargos(s, e, h, l) ==
  IF h = 0 /\ l = 0 THEN FZero
  ELSE ArredondaNormal(s, Normaliza(<<h + (l \div 2^28), l % 2^28>>, e - 3))

\* wg + k * wp with the sign and exponent of g: the sum of the magnitudes
\* (k = 1) or their difference (k = -1)
SomaMag(g, wg, wp, k) == SomaLargos(g[1], g[2], wg[1] + k * wp[1], wg[2] + k * wp[2])

\* g + p for abs(g) >= abs(p), neither being zero: the significand of p
\* is aligned to the exponent of g
SomaOrdenada(g, p) ==
  SomaMag(g, Largo(g), DeslocaJam(Largo(p), g[2] - p[2]), IF g[1] = p[1] THEN 1 ELSE -1)

\* x + y
FAdd(x, y) ==
  IF EhZero(x) THEN (IF EhZero(y) THEN <<IF x[1] = 1 /\ y[1] = 1 THEN 1 ELSE 0, 0, 0, 0>> ELSE y)
  ELSE IF EhZero(y) THEN x
  ELSE SomaOrdenada(IF MagMenor(x, y) THEN y ELSE x, IF MagMenor(x, y) THEN x ELSE y)

\* x - y
FSub(x, y) == FAdd(x, FNeg(y))

\* the significand in four digits of 14 bits, lowest first
Limbs(x) == <<x[4] % 2^14, (x[4] \div 2^14) + (x[3] % 2) * 2^13, (x[3] \div 2) % 2^14, x[3] \div 2^15>>

\* the column sums of the schoolbook product of two significands
Colunas(a, b) ==
  << a[1]*b[1],
     a[1]*b[2] + a[2]*b[1],
     a[1]*b[3] + a[2]*b[2] + a[3]*b[1],
     a[1]*b[4] + a[2]*b[3] + a[3]*b[2] + a[4]*b[1],
     a[2]*b[4] + a[3]*b[3] + a[4]*b[2],
     a[3]*b[4] + a[4]*b[3],
     a[4]*b[4] >>

\* the carries of the column sums taken up: the product in 14-bit digits
RECURSIVE Propaga(_, _, _)
Propaga(c, i, vai) ==
  IF i > Len(c) THEN <<vai>>
  ELSE <<(c[i] + vai) % 2^14>> \o Propaga(c, i + 1, (c[i] + vai) \div 2^14)

\* the sign of a product or a quotient
SinalProduto(x, y) == IF x[1] = y[1] THEN 0 ELSE 1

\* round to nearest, ties to even, on the bit meio that follows l and on
\* whether anything follows that bit
MeioPar(s, e, h, l, meio, resto) == Empacota(s, e, h, l, meio /\ (resto \/ l % 2 = 1))

\* the 53 highest bits of the product p, whose highest bit is bit 104 + k
Produto(s, e, p, k) ==
  MeioPar(s, e + k,
          (p[6] \div 2^(9 + k)) + p[7] * 2^(5 - k) + p[8] * 2^(19 - k),
          (p[4] \div 2^(10 + k)) + p[5] * 2^(4 - k) + (p[6] % 2^(9 + k)) * 2^(18 - k),
          (p[4] \div 2^(9 + k)) % 2 = 1,
          (p[4] % 2^(9 + k)) # 0 \/ p[1] # 0 \/ p[2] # 0 \/ p[3] # 0)

\* the 106-bit product p of two significands, rounded
ProdutoLargo(s, e, p) == Produto(s, e, p, IF p[8] < 2^7 THEN 0 ELSE 1)

\* x * y
FMul(x, y) ==
  IF EhZero(x) \/ EhZero(y) THEN <<SinalProduto(x, y), 0, 0, 0>>
  ELSE ProdutoLargo(SinalProduto(x, y), x[2] + y[2] + 52,
                    Propaga(Colunas(Limbs(x), Limbs(y)), 1, 0))

\* eight times the significand in four digits of 14 bits, lowest first
Limbs8(x) == <<(x[4] % 2^11) * 8, (x[4] \div 2^11) % 2^14, (x[4] \div 2^25) + (x[3] % 2^12) * 4, x[3] \div 2^12>>

\* digits brought back into 0 .. 2^14 - 1, the sign left in the highest
RECURSIVE Ajusta(_, _, _)
Ajusta(r, i, vai) ==
  IF i > Len(r) THEN <<>>
  ELSE IF i = Len(r) THEN <<r[i] + vai>>
  ELSE <<(r[i] + vai) % 2^14>> \o Ajusta(r, i + 1, (r[i] + vai) \div 2^14)

\* a + k * b, digit by digit
Comb(a, k, b) == [i \in 1..Len(a) |-> a[i] + k * (IF i <= Len(b) THEN b[i] ELSE 0)]

\* a quotient digit guessed too high is lowered until the remainder is >= 0
RECURSIVE Corrige(_, _, _)
Corrige(q, r, d) ==
  IF r[Len(r)] >= 0 THEN <<q, r>>
  ELSE Corrige(q - 1, Ajusta(Comb(r, 1, d), 1, 0), d)

\* the digit q tried on the five-digit remainder r5
Tenta(r5, d, q) == Corrige(q, Ajusta(Comb(r5, -q, d), 1, 0), d)

\* the estimate est of a digit, kept below 2^14
Estima(r5, d, est) == Tenta(r5, d, IF est > 2^14 - 1 THEN 2^14 - 1 ELSE est)

\* one step of the long division: the next 14-bit digit of r / d and the
\* remainder it leaves
Digito(r, d) == Estima(<<0>> \o r, d, (r[4] * 2^14 + r[3]) \div d[4])

\* n digits of r / d, then the last remainder
RECURSIVE Quociente(_, _, _)
Quociente(r, d, n) ==
  IF n = 0 THEN <<r>>
  ELSE LET dg == Digito(r, d)
       IN  <<dg[1]>> \o Quociente(SubSeq(dg[2], 1, 4), d, n - 1)

\* the significand of x is below that of y
SigMenor(x, y) == x[3] < y[3] \/ (x[3] = y[3] /\ x[4] < y[4])

\* round to nearest, ties to even, on the four bits extra that follow l
\* and on whether a remainder is left
MeiaUnidade(s, e, h, l, extra, resto) ==
  Empacota(s, e, h, l, extra > 8 \/ (extra = 8 /\ (resto \/ l % 2 = 1)))

\* the 57 quotient bits q and the remainder r, rounded
Fecha(s, e, q, r) ==
  MeiaUnidade(s, e, 2^25 + (q[2] \div 8) + q[1] * 2^11,
              (q[4] \div 16) + q[3] * 2^10 + (q[2] % 8) * 2^24,
              q[4] % 16, r[1] # 0 \/ r[2] # 0 \/ r[3] # 0 \/ r[4] # 0)

\* q: the four quotient digits, then the remainder
FechaQuociente(s, e, q) == Fecha(s, e, q, q[5])

\* the quotient of the significands n / d (in digits), n doubled first
\* when it is below d (m = 1)
Divide(s, e, n, d, m) ==
  FechaQuociente(s, e - m,
                 Quociente(Ajusta(Comb(Ajusta(Comb(n, m, n), 1, 0), -1, d), 1, 0), d, 4))

\* x / y for y # 0: 57 bits of the quotient of the significands and the
\* remainder as sticky bit, rounded
FDiv(x, y) ==
  IF EhZero(x) THEN <<SinalProduto(x, y), 0, 0, 0>>
  ELSE Divide(SinalProduto(x, y), x[2] - y[2] - 52, Limbs8(x), Limbs8(y),
              IF SigMenor(x, y) THEN 1 ELSE 0)

\* 0 < x
FPos(x) == x[1] = 0 /\ ~EhZero(x)

\* x < 0
FNegativo(x) == x[1] = 1 /\ ~EhZero(x)

\* x < y
FLess(x, y) ==
  IF EhZero(x) THEN FPos(y)
  ELSE IF EhZero(y) THEN FNegativo(x)
  ELSE IF x[1] # y[1] THEN x[1] = 1
  ELSE IF x[1] = 0 THEN MagMenor(x, y)
  ELSE MagMenor(y, x)

\* x == y (0.0 == -0.0)
FEq(x, y) == IF EhZero(x) THEN EhZero(y) ELSE x = y

\* x <= y
FLeq(x, y) == FLess(x, y) \/ FEq(x, y)

\* abs(x)
FAbs(x) == <<0, x[2], x[3], x[4]>>

\* max(0, x): x when 0 < x, else the 0 passed first
Max0(x) == IF FPos(x) THEN x ELSE FZero

\* sum(s) of Python 3.11: 0 + s[1] + s[2] + ..., accumulated left to right
\* (Series.sum() adds in the same order while it has fewer than 8 rows)
FSum(s) ==
  LET acc[i \in 0..Len(s)] == IF i = 0 THEN FZero ELSE FAdd(acc[i - 1], s[i])
  IN  acc[Len(s)]

-----------------------------------------------------------------------------
(* Records                                                                 *)

\* mov.get('ano', datetime.now().year)
MovAno(mov) == IF "ano" \in DOMAIN mov THEN mov.ano ELSE CurrentYear

\* {'programas': [], 'movimentacoes': [], 'saldos_iniciais': {}}
nova_estrutura ==
  [programas |-> <<>>, movimentacoes |-> <<>>,
   saldos_iniciais |-> [p \in {} |-> [Capital |-> FZero, Custeio |-> FZero]]]

SeqToSet(s) == { s[i] : i \in 1..Len(s) }

\* d[k] = v on a dict modelled as a function
DictSet(d, k, v) == [x \in DOMAIN d \cup {k} |-> IF x = k THEN v ELSE d[x]]

\* d.pop(k, None) / del d[k]
DictDel(d, k) == [x \in DOMAIN d \ {k} |-> d[x]]

-----------------------------------------------------------------------------
(* Balance resolver                                                        *)

\* variant: the period test compares the months and forgets the years
eh_passado_so_mes(mov_ano, mov_mes, ano_alvo, mes_alvo) == mov_mes < mes_alvo

\* variant: the period test lets the target month itself through
eh_passado_inclusivo(mov_ano, mov_mes, ano_alvo, mes_alvo) ==
  (mov_ano < ano_alvo) \/ (mov_ano = ano_alvo /\ mov_mes <= mes_alvo)

eh_passado(mov_ano, mov_mes, ano_alvo, mes_alvo) ==
  (mov_ano < ano_alvo) \/ (mov_ano = ano_alvo /\ mov_mes < mes_alvo)

\* what one Movement adds to the balance of a resource kind
mov_delta(mov, tipo_recurso) ==
  CASE tipo_recurso = "Capital" ->
         FSub(FAdd(mov.credito_capital, mov.rendimento_capital), mov.debito_capital)
    [] tipo_recurso = "Custeio" ->
         FSub(FAdd(mov.credito_custeio, mov.rendimento_custeio), mov.debito_custeio)
    [] tipo_recurso = "Total" ->
         FSub(FAdd(mov.total_credito, mov.total_rendimento), mov.total_debito)
    [] OTHER -> FZero

\* the opening-balance component(s) of a program
saldo_inicial(conta_data, programa, tipo_recurso) ==
  LET saldos_iniciais == conta_data.saldos_iniciais
  IN  IF programa \in DOMAIN saldos_iniciais
      THEN IF tipo_recurso # "Total"
           THEN IF tipo_recurso \in DOMAIN saldos_iniciais[programa]
                THEN saldos_iniciais[programa][tipo_recurso] ELSE FZero
           ELSE FAdd(saldos_iniciais[programa].Capital,
                     saldos_iniciais[programa].Custeio)
      ELSE FZero

get_saldo_anterior(accs, account_name, programa, tipo_recurso, mes_alvo, ano_alvo) ==
  LET conta_data == accs[account_name]
      movs == conta_data.movimentacoes
      saldo[i \in 0..Len(movs)] ==
        IF i = 0 THEN FAdd(FZero, saldo_inicial(conta_data, programa, tipo_recurso))
        ELSE LET mov == movs[i]
             IN  IF mov.programa = programa
                    /\ eh_passado(MovAno(mov), mov.mes_num, ano_alvo, mes_alvo)
                 THEN FAdd(saldo[i - 1], mov_delta(mov, tipo_recurso))
                 ELSE saldo[i - 1]
  IN  saldo[Len(movs)]

-----------------------------------------------------------------------------
(* Allocation engine                                                       *)

\* variant: the balance taken as it is, without the floor at 0
base_saldo_sem_piso(saldo_ant, cred, deb) == FSub(FAdd(saldo_ant, cred), deb)

\* max(0, saldo_ant + cred - deb)
base_saldo(saldo_ant, cred, deb) == Max0(FSub(FAdd(saldo_ant, cred), deb))

\* saldos_base[prog] for the i-th entry of dados_entrada
saldos_base(accs, conta, mes_num, ano, valores) ==
  [Capital |-> base_saldo(get_saldo_anterior(accs, conta, valores.prog, "Capital", mes_num, ano),
                          Float(valores.cred_cap), Float(valores.deb_cap)),
   Custeio |-> base_saldo(get_saldo_anterior(accs, conta, valores.prog, "Custeio", mes_num, ano),
                          Float(valores.cred_cus), Float(valores.deb_cus))]

\* the list a loop builds, as a tuple of its values
Lista(f) == f \o <<>>

\* first loop: saldos_base of every entry of dados_entrada, in its order
bases_programas(accs, conta, mes_num, ano, dados_entrada) ==
  Lista([i \in 1..Len(dados_entrada) |->
           saldos_base(accs, conta, mes_num, ano, dados_entrada[i])])

\* variant: only the Capital bases are added up
total_saldo_conta_capital(bases) ==
  FSum([i \in 1..Len(bases) |-> bases[i].Capital])

\* total_saldo_conta after the first loop
total_saldo_conta(bases) ==
  FSum([i \in 1..Len(bases) |-> FAdd(bases[i].Capital, bases[i].Custeio)])

\* variant: a whole share when there is nothing to divide by
fator_inteiro(base, total) == IF FPos(total) THEN FDiv(base, total) ELSE Float(1)

\* base / total_saldo_conta if total_saldo_conta > 0 else 0
fator(base, total) == IF FPos(total) THEN FDiv(base, total) ELSE FZero

\* variant: the two interest fields exchanged
registro_trocado(prog, mes_num, ano, valores, rend_cap, rend_cus) ==
  [programa |-> prog, mes_num |-> mes_num, ano |-> ano,
   credito_capital |-> Float(valores.cred_cap), credito_custeio |-> Float(valores.cred_cus),
   debito_capital |-> Float(valores.deb_cap), debito_custeio |-> Float(valores.deb_cus),
   rendimento_capital |-> rend_cus, rendimento_custeio |-> rend_cap,
   total_credito |-> FAdd(Float(valores.cred_cap), Float(valores.cred_cus)),
   total_debito |-> FAdd(Float(valores.deb_cap), Float(valores.deb_cus)),
   total_rendimento |-> FAdd(rend_cap, rend_cus)]

\* the dict appended to resultados
registro(prog, mes_num, ano, valores, rend_cap, rend_cus) ==
  [programa |-> prog, mes_num |-> mes_num, ano |-> ano,
   credito_capital |-> Float(valores.cred_cap), credito_custeio |-> Float(valores.cred_cus),
   debito_capital |-> Float(valores.deb_cap), debito_custeio |-> Float(valores.deb_cus),
   rendimento_capital |-> rend_cap, rendimento_custeio |-> rend_cus,
   total_credito |-> FAdd(Float(valores.cred_cap), Float(valores.cred_cus)),
   total_debito |-> FAdd(Float(valores.deb_cap), Float(valores.deb_cus)),
   total_rendimento |-> FAdd(rend_cap, rend_cus)]

\* dados_entrada: the ordered dict program -> inputs, as a sequence of
\* [prog, cred_cap, cred_cus, deb_cap, deb_cus] in the program list's order
calcular_rateio_rendimento(accs, conta, mes_num, ano, rendimento_total_banco, dados_entrada) ==
  LET bases == bases_programas(accs, conta, mes_num, ano, dados_entrada)
      total == total_saldo_conta(bases)
  IN  Lista([i \in 1..Len(dados_entrada) |->
         LET valores == dados_entrada[i]
             base_prog == bases[i]
             fator_cap == fator(base_prog.Capital, total)
             fator_cus == fator(base_prog.Custeio, total)
             rend_cap == FMul(Float(rendimento_total_banco), fator_cap)
             rend_cus == FMul(Float(rendimento_total_banco), fator_cus)
         IN  registro(valores.prog, mes_num, ano, valores, rend_cap, rend_cus)])

-----------------------------------------------------------------------------
(* Ledger store ('pdde_contas'): a map from document id to account record. *)
(* db is the handle init_firebase returned (FALSE: None); falha says that  *)
(* the store call raises.                                                  *)

load_accounts_from_firebase(db, st, falha) ==
  IF ~db THEN <<>> ELSE IF falha THEN <<>> ELSE st

save_account_to_firebase_junta(db, st, account_name, account_data, falha) ==
  IF ~db THEN st ELSE IF falha THEN st
  ELSE IF account_name \notin DOMAIN st THEN DictSet(st, account_name, account_data)
  ELSE DictSet(st, account_name,
               [account_data EXCEPT
                  !.movimentacoes =
                     @ \o SelectSeq(st[account_name].movimentacoes,
                            LAMBDA m : \A i \in 1..Len(account_data.movimentacoes) :
                               \/ account_data.movimentacoes[i].mes_num # m.mes_num
                               \/ MovAno(account_data.movimentacoes[i]) # MovAno(m))])

save_account_to_firebase_grava_na_falha(db, st, account_name, account_data, falha) ==
  IF ~db THEN st ELSE DictSet(st, account_name, account_data)

save_account_to_firebase(db, st, account_name, account_data, falha) ==
  IF ~db THEN st ELSE IF falha THEN st ELSE DictSet(st, account_name, account_data)

delete_account_from_firebase(db, st, account_name, falha) ==
  IF ~db THEN st ELSE IF falha THEN st ELSE DictDel(st, account_name)

Falhas == IF db_conn THEN BOOLEAN ELSE {FALSE}

-----------------------------------------------------------------------------
(* Session state                                                           *)

\* load_empenhos_from_firebase: doc is the list of the document
\* 'pdde_dados_gerais/empenhos'
load_empenhos_from_firebase(db, doc, falha) ==
  IF ~db THEN <<>> ELSE IF falha THEN <<>> ELSE doc

\* days of a month of the proleptic Gregorian calendar of datetime
dias_no_mes(ano, mes) ==
  IF mes = 2
  THEN IF (ano % 4 = 0 /\ ano % 100 # 0) \/ ano % 400 = 0 THEN 29 ELSE 28
  ELSE IF mes \in {4, 6, 9, 11} THEN 30 ELSE 31

\* datetime.strptime(texto, "%Y-%m-%d") succeeds; the text of a date is
\* kept as its fields <<year, month, day>>, any other value as <<>>
data_valida(texto) ==
  /\ Len(texto) = 3
  /\ texto[1] \in 1..9999
  /\ texto[2] \in 1..12
  /\ texto[3] \in 1..dias_no_mes(texto[1], texto[2])

\* the year an empenho adds to anos_encontrados: that of its data_empenho,
\* none when the key is missing or the text is not a date
ano_do_empenho(emp) ==
  IF "data_empenho" \in DOMAIN emp /\ data_valida(emp.data_empenho)
  THEN {emp.data_empenho[1]} ELSE {}

\* available_years computed by init_session_state (as a set; it is used
\* sorted)
anos_encontrados(accs, emps) ==
  {CurrentYear}
  \cup UNION { { MovAno(accs[c].movimentacoes[i]) : i \in 1..Len(accs[c].movimentacoes) }
              : c \in DOMAIN accs }
  \cup UNION { ano_do_empenho(emps[i]) : i \in 1..Len(emps) }

\* the place of a year in sorted(available_years)
posicao_ano(anos, ano) == Cardinality({ a \in anos : a <= ano })

\* main() renders the years in order and render_financeiro_view gives the
\* program selectbox of the summary the same key for every year
\* (sel_demo_<conta>): the second year's summary raises DuplicateWidgetID
\* and ends the script run.  The form and the statement are reached for
\* the first two years ...
formulario_renderizado(anos, ano) == ano \in anos /\ posicao_ano(anos, ano) <= 2

\* ... and the summary for the first year only
resumo_renderizado(anos, ano) == ano \in anos /\ posicao_ano(anos, ano) = 1

\* no store rename of the session is under way (the session's script is
\* blocked in the store call otherwise)
Parado == [pc |-> "parado", old_name |-> "", new_name |-> "", data |-> <<>>, guardado |-> <<>>]

\* nor is a reload between its two reads
Livre == renomeando.pc = "parado" /\ recarregando = "parado"

\* the record of the last user action
\* (substituidos: the programs whose Movement of the saved period the save
\* dropped; repete: the action repeats the previous action and its inputs;
\* antes: session_state['accounts'] when the action started; guardado: the
\* durable collection when the action started; falhou: the store call of
\* the action raised; novo_nome: the new name typed for a rename; sucesso:
\* what rename_account_in_firebase returned)
Acao(op, conta, prog, ano, mes, rend, dados, novos, substituidos) ==
  [op |-> op, conta |-> conta, prog |-> prog, ano |-> ano, mes |-> mes,
   rend |-> rend, dados |-> dados, novos |-> novos,
   substituidos |-> substituidos, antes |-> accounts, guardado |-> store,
   falhou |-> FALSE, novo_nome |-> "", sucesso |-> FALSE,
   repete |-> /\ last.op = op /\ last.conta = conta /\ last.prog = prog
              /\ last.ano = ano /\ last.mes = mes /\ last.rend = rend
              /\ last.dados = dados]

AcaoSimples(op, conta, prog) == Acao(op, conta, prog, 0, 0, 0, <<>>, <<>>, <<>>)

\* Accounts a previous session persisted, each built by the operations below
\* from an empty collection: A1 right after its two programs were added ...
ContaSemente ==
  [programas |-> <<"P1", "P2">>, movimentacoes |-> <<>>,
   saldos_iniciais |-> [p \in {"P1", "P2"} |-> [Capital |-> FZero, Custeio |-> FZero]]]

\* ... with the opening balances then set ...
ContaComSaldos ==
  [ContaSemente EXCEPT
     !.saldos_iniciais =
        [p \in {"P1", "P2"} |->
           IF p = "P1" THEN [Capital |-> Float(1), Custeio |-> FZero]
           ELSE [Capital |-> Float(-1), Custeio |-> Float(2)]]]

\* January of the current year saved over an account record: bank interest
\* 4, and credit 3 to Capital and debit 1 from Custeio for both programs
ComJaneiro(conta_data) ==
  [conta_data EXCEPT
     !.movimentacoes =
        calcular_rateio_rendimento(
          [c \in {"A1"} |-> conta_data], "A1", 1, CurrentYear, 4,
          <<[prog |-> "P1", cred_cap |-> 3, cred_cus |-> 0, deb_cap |-> 0, deb_cus |-> 1],
            [prog |-> "P2", cred_cap |-> 3, cred_cus |-> 0, deb_cap |-> 0, deb_cus |-> 1]>>)]

\* what the list of empenhos may hold when the session starts: nothing; or
\* an empenho of two years ago, one of this year, one stored without a
\* date, one whose date is the empty text and one dated 30 February
EmpenhosIniciais ==
  { <<>>,
    << [id |-> "e1", data_empenho |-> <<CurrentYear - 2, 5, 1>>],
       [id |-> "e2", data_empenho |-> <<CurrentYear, 1, 15>>],
       [id |-> "e3"],
       [id |-> "e4", data_empenho |-> <<>>],
       [id |-> "e5", data_empenho |-> <<CurrentYear - 3, 2, 30>>] >> }

Init ==
  /\ db_conn \in BOOLEAN
  /\ store \in { <<>>, [c \in {"A1"} |-> ContaSemente],
                  [c \in {"A1"} |-> ComJaneiro(ContaComSaldos)] }
  /\ empenhos_doc \in EmpenhosIniciais
  /\ \E falha \in Falhas : accounts = load_accounts_from_firebase(db_conn, store, falha)
  /\ \E falha \in Falhas : empenhos_global = load_empenhos_from_firebase(db_conn, empenhos_doc, falha)
  /\ available_years = anos_encontrados(accounts, empenhos_global)
  /\ renomeando = Parado
  /\ last = [op |-> "init", conta |-> "", prog |-> "", ano |-> 0, mes |-> 0,
             rend |-> 0, dados |-> <<>>, novos |-> <<>>, substituidos |-> <<>>,
             antes |-> <<>>, guardado |-> <<>>, falhou |-> FALSE,
             novo_nome |-> "", repete |-> FALSE, sucesso |-> FALSE]
  /\ nops = 0
  /\ outra = <<>>
  /\ recarregando = "parado"
  /\ empenhos_outra = <<>>
  /\ anos_outra = {}

-----------------------------------------------------------------------------
(* Account management (sidebar_config)                                     *)

\* init_firebase: the handle is there when the process has an app already
\* (apps) or a credential is found (credencial); None otherwise
init_firebase(apps, credencial) == apps \/ credencial

\* the session after the reload's read of the accounts: with a handle the
\* script goes on to the read of the empenhos (the keys 'empenhos_global'
\* and 'available_years' are still deleted: empty here); without one
\* nothing is read and the session is complete
SessaoRecarregada(db, falha) ==
  /\ db_conn' = db
  /\ empenhos_global' = <<>>
  /\ recarregando' = (IF db THEN "get_empenhos" ELSE "parado")
  /\ available_years' = (IF db THEN {} ELSE anos_encontrados(accounts', <<>>))
  /\ last' = [AcaoSimples(IF db THEN "recarregando" ELSE "recarregar", "", "")
                EXCEPT !.falhou = falha]
  /\ nops' = nops + 1
  /\ UNCHANGED <<empenhos_doc, renomeando, store, outra, empenhos_outra, anos_outra>>

Recarregar_mantem_sessao(credencial, falha) ==
  /\ nops < MaxOps
  /\ Livre
  /\ falha => init_firebase(db_conn, credencial)
  /\ accounts' = IF accounts = <<>>
                  THEN load_accounts_from_firebase(init_firebase(db_conn, credencial), store, falha)
                  ELSE accounts
  /\ SessaoRecarregada(init_firebase(db_conn, credencial), falha)

\* "Recarregar Dados": st.cache_resource is cleared and every key of
\* st.session_state deleted; the rerun's init_session_state calls
\* init_firebase again and streams the collection of accounts (falha: the
\* stream raises)
Recarregar(credencial, falha) ==
  /\ nops < MaxOps
  /\ Livre
  /\ falha => init_firebase(db_conn, credencial)
  /\ accounts' = load_accounts_from_firebase(init_firebase(db_conn, credencial), store, falha)
  /\ SessaoRecarregada(init_firebase(db_conn, credencial), falha)

\* the reload's second read, the document of the empenhos; the years are
\* then computed from what the two reads returned
RecarregarEmpenhos(falha) ==
  /\ recarregando = "get_empenhos"
  /\ empenhos_global' = load_empenhos_from_firebase(db_conn, empenhos_doc, falha)
  /\ available_years' = anos_encontrados(accounts, empenhos_global')
  /\ recarregando' = "parado"
  /\ last' = [last EXCEPT !.op = "recarregar"]
  /\ UNCHANGED <<accounts, store, db_conn, nops, outra, empenhos_doc, renomeando, empenhos_outra, anos_outra>>

CriarConta(nova_conta, falha) ==
  /\ nops < MaxOps
  /\ Livre
  /\ nova_conta \notin DOMAIN accounts
  /\ accounts' = DictSet(accounts, nova_conta, nova_estrutura)
  /\ store' = save_account_to_firebase(db_conn, store, nova_conta, nova_estrutura, falha)
  /\ last' = [AcaoSimples("criar_conta", nova_conta, "") EXCEPT !.falhou = falha]
  /\ nops' = nops + 1
  /\ UNCHANGED <<empenhos_doc, empenhos_global, renomeando, db_conn, available_years, outra, recarregando, empenhos_outra, anos_outra>>

\* variant: the record is moved whatever the store rename returned
aplicar_renomeacao_sem_olhar_sucesso(accs, success, conta_alvo, novo_nome_conta) ==
  DictSet(DictDel(accs, conta_alvo), novo_nome_conta, accs[conta_alvo])

\* the rename handler after rename_account_in_firebase returned: on success
\* the session's record is popped and stored under the new name
aplicar_renomeacao(accs, success, conta_alvo, novo_nome_conta) ==
  IF success /\ conta_alvo \in DOMAIN accs
  THEN DictSet(DictDel(accs, conta_alvo), novo_nome_conta, accs[conta_alvo])
  ELSE accs

\* the history record of a rename whose handler has returned (guardado: the
\* collection when the handler started; dados: the document it read)
FimRenomear(conta_alvo, novo_nome_conta, guardado, dados, success, falha) ==
  [AcaoSimples("renomear_conta", conta_alvo, "")
     EXCEPT !.novo_nome = novo_nome_conta, !.guardado = guardado,
            !.dados = dados, !.sucesso = success, !.falhou = falha]

\* the history record of a rename between two of its store calls
MeioRenomear(conta_alvo, novo_nome_conta, guardado, dados) ==
  [AcaoSimples("renomeando", conta_alvo, "")
     EXCEPT !.novo_nome = novo_nome_conta, !.guardado = guardado, !.dados = dados]

\* rename_account_in_firebase returns: the handler applies the result to
\* the session and the script goes on
RetornaRenomear(success, falha) ==
  /\ accounts' = aplicar_renomeacao(accounts, success, renomeando.old_name, renomeando.new_name)
  /\ last' = FimRenomear(renomeando.old_name, renomeando.new_name, renomeando.guardado, renomeando.data, success, falha)
  /\ renomeando' = Parado

\* variant: the store is not asked whether the new name is taken
RenomearConta_sem_verificacao(conta_alvo, novo_nome_conta, falha) ==
  /\ nops < MaxOps
  /\ Livre
  /\ conta_alvo \in DOMAIN accounts
  /\ IF novo_nome_conta \in DOMAIN accounts \/ ~db_conn \/ falha
     THEN /\ novo_nome_conta \in DOMAIN accounts => ~falha
          /\ last' = FimRenomear(conta_alvo, novo_nome_conta, store, <<>>, FALSE, falha)
          /\ UNCHANGED renomeando
     ELSE /\ renomeando' = [pc |-> "get_velho", old_name |-> conta_alvo, new_name |-> novo_nome_conta, data |-> <<>>, guardado |-> store]
          /\ last' = MeioRenomear(conta_alvo, novo_nome_conta, store, <<>>)
  /\ nops' = nops + 1
  /\ UNCHANGED <<accounts, store, db_conn, available_years, outra, empenhos_doc, empenhos_global, recarregando, empenhos_outra, anos_outra>>

\* "Renomear" pressed, up to the first store call of
\* rename_account_in_firebase, new_ref.get(): a name the session already
\* has only warns ("Nome ja existe!"); without a connection, when the get()
\* raises or when the new document exists the function returns False
RenomearConta(conta_alvo, novo_nome_conta, falha) ==
  /\ nops < MaxOps
  /\ Livre
  /\ conta_alvo \in DOMAIN accounts
  /\ IF novo_nome_conta \in DOMAIN accounts \/ ~db_conn \/ falha \/ novo_nome_conta \in DOMAIN store
     THEN /\ novo_nome_conta \in DOMAIN accounts => ~falha
          /\ last' = FimRenomear(conta_alvo, novo_nome_conta, store, <<>>, FALSE, falha)
          /\ UNCHANGED renomeando
     ELSE /\ renomeando' = [pc |-> "get_velho", old_name |-> conta_alvo, new_name |-> novo_nome_conta, data |-> <<>>, guardado |-> store]
          /\ last' = MeioRenomear(conta_alvo, novo_nome_conta, store, <<>>)
  /\ nops' = nops + 1
  /\ UNCHANGED <<accounts, store, db_conn, available_years, outra, empenhos_doc, empenhos_global, recarregando, empenhos_outra, anos_outra>>

\* old_ref.get(): the call raises or the old document is missing (False),
\* or its data is taken
RenomearLerAntigo(falha) ==
  /\ renomeando.pc = "get_velho"
  /\ IF falha \/ renomeando.old_name \notin DOMAIN store
     THEN RetornaRenomear(FALSE, falha)
     ELSE /\ renomeando' = [renomeando EXCEPT !.pc = "set", !.data = <<store[renomeando.old_name]>>]
          /\ last' = MeioRenomear(renomeando.old_name, renomeando.new_name, renomeando.guardado, renomeando'.data)
          /\ UNCHANGED accounts
  /\ UNCHANGED <<store, db_conn, available_years, outra, empenhos_doc, empenhos_global, nops, recarregando, empenhos_outra, anos_outra>>

\* variant: the old document is deleted where the new one should be written
RenomearGravarNovo_apaga(falha) ==
  /\ renomeando.pc = "set"
  /\ IF falha
     THEN /\ RetornaRenomear(FALSE, TRUE)
          /\ UNCHANGED store
     ELSE /\ store' = DictDel(store, renomeando.old_name)
          /\ renomeando' = [renomeando EXCEPT !.pc = "delete"]
          /\ last' = MeioRenomear(renomeando.old_name, renomeando.new_name, renomeando.guardado, renomeando.data)
          /\ UNCHANGED accounts
  /\ UNCHANGED <<db_conn, available_years, outra, empenhos_doc, empenhos_global, nops, recarregando, empenhos_outra, anos_outra>>

\* new_ref.set(data): the call raises (False, nothing written), or the data
\* read from the old document is now the new document
RenomearGravarNovo(falha) ==
  /\ renomeando.pc = "set"
  /\ IF falha
     THEN /\ RetornaRenomear(FALSE, TRUE)
          /\ UNCHANGED store
     ELSE /\ store' = DictSet(store, renomeando.new_name, renomeando.data[1])
          /\ renomeando' = [renomeando EXCEPT !.pc = "delete"]
          /\ last' = MeioRenomear(renomeando.old_name, renomeando.new_name, renomeando.guardado, renomeando.data)
          /\ UNCHANGED accounts
  /\ UNCHANGED <<db_conn, available_years, outra, empenhos_doc, empenhos_global, nops, recarregando, empenhos_outra, anos_outra>>

\* old_ref.delete(): the call raises (False, both documents stay), or the
\* old document is gone and the function returns True
RenomearApagarAntigo(falha) ==
  /\ renomeando.pc = "delete"
  /\ IF falha
     THEN /\ RetornaRenomear(FALSE, TRUE)
          /\ UNCHANGED store
     ELSE /\ store' = DictDel(store, renomeando.old_name)
          /\ RetornaRenomear(TRUE, FALSE)
  /\ UNCHANGED <<db_conn, available_years, outra, empenhos_doc, empenhos_global, nops, recarregando, empenhos_outra, anos_outra>>

ExcluirConta(conta_del, falha) ==
  /\ nops < MaxOps
  /\ Livre
  /\ conta_del \in DOMAIN accounts
  /\ accounts' = DictDel(accounts, conta_del)
  /\ store' = delete_account_from_firebase(db_conn, store, conta_del, falha)
  /\ last' = [AcaoSimples("excluir_conta", conta_del, "") EXCEPT !.falhou = falha]
  /\ nops' = nops + 1
  /\ UNCHANGED <<empenhos_doc, empenhos_global, renomeando, db_conn, available_years, outra, recarregando, empenhos_outra, anos_outra>>

CriarExercicio(novo_ano) ==
  /\ nops < MaxOps
  /\ Livre
  /\ novo_ano \notin available_years
  /\ available_years' = available_years \cup {novo_ano}
  /\ last' = AcaoSimples("criar_exercicio", "", "")
  /\ nops' = nops + 1
  /\ UNCHANGED <<empenhos_doc, empenhos_global, renomeando, accounts, store, db_conn, outra, recarregando, empenhos_outra, anos_outra>>

-----------------------------------------------------------------------------
(* Program management and opening balances (main)                          *)

AdicionarPrograma(nome, novo, falha) ==
  /\ nops < MaxOps
  /\ Livre
  /\ nome \in DOMAIN accounts
  /\ novo \notin SeqToSet(accounts[nome].programas)
  /\ LET conta == [accounts[nome] EXCEPT
                     !.programas = Append(@, novo),
                     !.saldos_iniciais =
                        DictSet(@, novo, [Capital |-> FZero, Custeio |-> FZero])]
     IN  /\ accounts' = [accounts EXCEPT ![nome] = conta]
         /\ store' = save_account_to_firebase(db_conn, store, nome, conta, falha)
  /\ last' = [AcaoSimples("adicionar_programa", nome, novo) EXCEPT !.falhou = falha]
  /\ nops' = nops + 1
  /\ UNCHANGED <<empenhos_doc, empenhos_global, renomeando, db_conn, available_years, outra, recarregando, empenhos_outra, anos_outra>>

\* list.remove(p): drops the first occurrence
Remove(s, p) ==
  LET k == CHOOSE i \in 1..Len(s) : s[i] = p /\ \A j \in 1..(i - 1) : s[j] # p
  IN  [i \in 1..(Len(s) - 1) |-> IF i < k THEN s[i] ELSE s[i + 1]]

ExcluirPrograma_com_lancamentos(nome, p, falha) ==
  /\ nops < MaxOps
  /\ Livre
  /\ nome \in DOMAIN accounts
  /\ p \in SeqToSet(accounts[nome].programas)
  /\ LET conta == [accounts[nome] EXCEPT
                     !.programas = Remove(@, p),
                     !.saldos_iniciais = DictDel(@, p),
                     !.movimentacoes = SelectSeq(@, LAMBDA m : m.programa # p)]
     IN  /\ accounts' = [accounts EXCEPT ![nome] = conta]
         /\ store' = save_account_to_firebase(db_conn, store, nome, conta, falha)
  /\ last' = [AcaoSimples("excluir_programa", nome, p) EXCEPT !.falhou = falha]
  /\ nops' = nops + 1
  /\ UNCHANGED <<empenhos_doc, empenhos_global, renomeando, db_conn, available_years, outra, recarregando, empenhos_outra, anos_outra>>

ExcluirPrograma(nome, p, falha) ==
  /\ nops < MaxOps
  /\ Livre
  /\ nome \in DOMAIN accounts
  /\ p \in SeqToSet(accounts[nome].programas)
  /\ LET conta == [accounts[nome] EXCEPT
                     !.programas = Remove(@, p),
                     !.saldos_iniciais = DictDel(@, p)]
     IN  /\ accounts' = [accounts EXCEPT ![nome] = conta]
         /\ store' = save_account_to_firebase(db_conn, store, nome, conta, falha)
  /\ last' = [AcaoSimples("excluir_programa", nome, p) EXCEPT !.falhou = falha]
  /\ nops' = nops + 1
  /\ UNCHANGED <<empenhos_doc, empenhos_global, renomeando, db_conn, available_years, outra, recarregando, empenhos_outra, anos_outra>>

SalvarSaldoInicial(nome, p, n_cap, n_cus, falha) ==
  /\ nops < MaxOps
  /\ Livre
  /\ nome \in DOMAIN accounts
  /\ p \in SeqToSet(accounts[nome].programas)
  /\ LET conta == [accounts[nome] EXCEPT
                     !.saldos_iniciais =
                        DictSet(@, p, [Capital |-> Float(n_cap), Custeio |-> Float(n_cus)])]
     IN  /\ accounts' = [accounts EXCEPT ![nome] = conta]
         /\ store' = save_account_to_firebase(db_conn, store, nome, conta, falha)
  /\ last' = [AcaoSimples("salvar_saldo_inicial", nome, p) EXCEPT !.falhou = falha]
  /\ nops' = nops + 1
  /\ UNCHANGED <<empenhos_doc, empenhos_global, renomeando, db_conn, available_years, outra, recarregando, empenhos_outra, anos_outra>>

-----------------------------------------------------------------------------
(* Period save (render_financeiro_view, tab "Lancamentos")                 *)

\* variant: the filter drops the whole year of the saved period
lista_limpa_so_ano(lista_atual, mes_selecionado, ano_atual) ==
  SelectSeq(lista_atual, LAMBDA m : ~(MovAno(m) = ano_atual))

\* variant: the filter also drops the later months of the year, to have
\* them allocated again
lista_limpa_e_seguintes(lista_atual, mes_selecionado, ano_atual) ==
  SelectSeq(lista_atual,
            LAMBDA m : ~(m.mes_num >= mes_selecionado /\ MovAno(m) = ano_atual))

\* the Movements kept by the period-replace filter
lista_limpa(lista_atual, mes_selecionado, ano_atual) ==
  SelectSeq(lista_atual,
            LAMBDA m : ~(m.mes_num = mes_selecionado /\ MovAno(m) = ano_atual))

\* variant: a per-program merge, which drops from the saved period only the
\* Movements of the programs in the new records
nova_lista_por_programa(lista_atual, novos_registros, mes_selecionado, ano_atual) ==
  SelectSeq(lista_atual,
            LAMBDA m : ~(/\ m.mes_num = mes_selecionado /\ MovAno(m) = ano_atual
                         /\ \E i \in 1..Len(novos_registros) :
                               novos_registros[i].programa = m.programa))
    \o novos_registros

\* variant: the new records appended to the unfiltered list
nova_lista_sem_filtro(lista_atual, novos_registros, mes_selecionado, ano_atual) ==
  lista_atual \o novos_registros

\* the account's Movement list after the save: the filtered list extended
\* with the new records
nova_lista(lista_atual, novos_registros, mes_selecionado, ano_atual) ==
  lista_limpa(lista_atual, mes_selecionado, ano_atual) \o novos_registros

\* dados_entrada built by the form loop over the account's programs
montar_dados_entrada(programas, entradas) ==
  Lista([i \in 1..Len(programas) |->
     [prog |-> programas[i],
      cred_cap |-> entradas[i].cred_cap, cred_cus |-> entradas[i].cred_cus,
      deb_cap |-> entradas[i].deb_cap, deb_cus |-> entradas[i].deb_cus]])

SalvarLancamento(conta_atual, ano_atual, mes_selecionado, rendimento_total, entradas, falha) ==
  /\ nops < MaxOps
  /\ Livre
  /\ conta_atual \in DOMAIN accounts
  /\ accounts[conta_atual].programas # <<>>
  /\ formulario_renderizado(available_years, ano_atual)
  /\ \E dados_entrada \in {montar_dados_entrada(accounts[conta_atual].programas, entradas)} :
       \E novos_registros \in {calcular_rateio_rendimento(accounts, conta_atual,
                                   mes_selecionado, ano_atual, rendimento_total,
                                   dados_entrada)} :
         \E conta \in {[accounts[conta_atual] EXCEPT
                          !.movimentacoes =
                             nova_lista(accounts[conta_atual].movimentacoes,
                                        novos_registros, mes_selecionado, ano_atual)]} :
           LET lista_atual == accounts[conta_atual].movimentacoes
               substituidos ==
                 SelectSeq(lista_atual,
                           LAMBDA m : m.mes_num = mes_selecionado /\ MovAno(m) = ano_atual)
           IN  /\ accounts' = [accounts EXCEPT ![conta_atual] = conta]
               /\ store' = save_account_to_firebase(db_conn, store, conta_atual, conta, falha)
               /\ last' = [Acao("salvar_lancamento", conta_atual, "", ano_atual,
                                mes_selecionado, rendimento_total, dados_entrada,
                                novos_registros,
                                Lista([i \in 1..Len(substituidos) |->
                                         substituidos[i].programa]))
                             EXCEPT !.falhou = falha]
  /\ nops' = nops + 1
  /\ UNCHANGED <<empenhos_doc, empenhos_global, renomeando, db_conn, available_years, outra, recarregando, empenhos_outra, anos_outra>>

-----------------------------------------------------------------------------
(* Monthly statement (render_financeiro_view, tab "Extrato Mensal")        *)

\* one step of the stable sort by mes_num: m goes after every element whose
\* month is not later than its own
inserir_por_mes(t, m) ==
  LET k == Cardinality({ j \in 1..Len(t) : t[j].mes_num <= m.mes_num })
  IN  SubSeq(t, 1, k) \o <<m>> \o SubSeq(t, k + 1, Len(t))

\* list.sort(key=lambda x: x['mes_num'])
ordenar_por_mes(s) ==
  LET ordenado[i \in 0..Len(s)] ==
        IF i = 0 THEN <<>> ELSE inserir_por_mes(ordenado[i - 1], s[i])
  IN  ordenado[Len(s)]

\* the program's Movements of the year, sorted by month
movs_prog_ano(movs, p, ano_atual) ==
  ordenar_por_mes(SelectSeq(movs, LAMBDA m : m.programa = p /\ MovAno(m) = ano_atual))

\* the running balances after one more Movement
acumula(saldo, m) ==
  [cap |-> FAdd(saldo.cap, mov_delta(m, "Capital")),
   cus |-> FAdd(saldo.cus, mov_delta(m, "Custeio"))]

\* dados_tabela of one program: one row per Movement with the running
\* balances after it (the month stands for its name in "Mes")
dados_tabela(accs, conta_atual, p, ano_atual) ==
  LET movs_p == movs_prog_ano(accs[conta_atual].movimentacoes, p, ano_atual)
      saldo_acumulado[i \in 0..Len(movs_p)] ==
        IF i = 0
        THEN [cap |-> get_saldo_anterior(accs, conta_atual, p, "Capital", 1, ano_atual),
              cus |-> get_saldo_anterior(accs, conta_atual, p, "Custeio", 1, ano_atual)]
        ELSE acumula(saldo_acumulado[i - 1], movs_p[i])
  IN  Lista([i \in 1..Len(movs_p) |->
         LET m == movs_p[i]
         IN  [Programa |-> p, Mes |-> m.mes_num,
              Credito |-> m.total_credito, RendCap |-> m.rendimento_capital,
              RendCust |-> m.rendimento_custeio, RendTotal |-> m.total_rendimento,
              Debito |-> m.total_debito, SCusteio |-> saldo_acumulado[i].cus,
              SCapital |-> saldo_acumulado[i].cap,
              STotal |-> FAdd(saldo_acumulado[i].cap, saldo_acumulado[i].cus)]])

\* one of the eight partial sums of numpy's pairwise summation: row j of the
\* first block, then row j of each further whole block of eight
soma_parcial(a, j, blocos) ==
  LET r[k \in 0..blocos - 1] == IF k = 0 THEN a[j] ELSE FAdd(r[k - 1], a[8 * k + j])
  IN  r[blocos - 1]

\* neighbours added in pairs until one sum is left:
\* ((r0 + r1) + (r2 + r3)) + ((r4 + r5) + (r6 + r7))
RECURSIVE soma_aos_pares(_)
soma_aos_pares(r) ==
  IF Len(r) = 1 THEN r[1]
  ELSE soma_aos_pares([j \in 1..(Len(r) \div 2) |-> FAdd(r[2 * j - 1], r[2 * j])])

\* the rows after the last whole block added one by one to the sum of the
\* blocks
soma_resto(a, res, de) ==
  LET acc[i \in (de - 1)..Len(a)] == IF i = de - 1 THEN res ELSE FAdd(acc[i - 1], a[i])
  IN  acc[Len(a)]

\* the sum numpy's add.reduce computes over a float64 array: fewer than
\* eight values are added from left to right; up to 128 values are added
\* into eight partial sums; a longer array is split in two halves, the
\* first a multiple of eight values long
RECURSIVE pairwise_sum(_)
pairwise_sum(a) ==
  IF Len(a) < 8 THEN FSum(a)
  ELSE IF Len(a) <= 128
  THEN soma_resto(a, soma_aos_pares([j \in 1..8 |-> soma_parcial(a, j, Len(a) \div 8)]),
                  8 * (Len(a) \div 8) + 1)
  ELSE soma_aos_pares([h \in 1..2 |->
         pairwise_sum(IF h = 1
                      THEN SubSeq(a, 1, (Len(a) \div 2) - ((Len(a) \div 2) % 8))
                      ELSE SubSeq(a, (Len(a) \div 2) - ((Len(a) \div 2) % 8) + 1, Len(a)))])

\* df_prog[coluna].sum(): the reduction starts from 0.0
Series_sum(df_prog, coluna) ==
  FSum(<<pairwise_sum([i \in 1..Len(df_prog) |-> df_prog[i][coluna]])>>)

\* the closing row: the sums of the columns and the balances of one row
\* ("---" for the month is 0)
linha_de_total(soma, saldos) ==
  [Programa |-> "TOTAL", Mes |-> 0,
   Credito |-> soma["Credito"], RendCap |-> soma["RendCap"],
   RendCust |-> soma["RendCust"], RendTotal |-> soma["RendTotal"],
   Debito |-> soma["Debito"],
   SCusteio |-> saldos.SCusteio, SCapital |-> saldos.SCapital, STotal |-> saldos.STotal]

linha_total_da_primeira(df_prog) ==
  linha_de_total([coluna \in {"Credito", "RendCap", "RendCust", "RendTotal", "Debito"} |->
                    Series_sum(df_prog, coluna)], df_prog[1])

\* the "TOTAL" row that closes a program's rows: the sums of the columns
\* and iloc[-1] of the balances
linha_total(df_prog) ==
  linha_de_total([coluna \in {"Credito", "RendCap", "RendCust", "RendTotal", "Debito"} |->
                    Series_sum(df_prog, coluna)],
                 df_prog[Len(df_prog)])

\* the rows one program adds to df_final
bloco_programa(accs, conta_atual, p, ano_atual) ==
  LET df_prog == dados_tabela(accs, conta_atual, p, ano_atual)
  IN  IF df_prog # <<>> THEN df_prog \o <<linha_total(df_prog)>> ELSE <<>>

\* df_final: the blocks of the listed programs (programas_para_listar: all
\* of them or the one of the filter), in their order
extrato_mensal(accs, conta_atual, ano_atual, programas, filtro_prog) ==
  LET lista == IF filtro_prog = "Todos" THEN programas ELSE <<filtro_prog>>
      df_final[i \in 0..Len(lista)] ==
        IF i = 0 THEN <<>>
        ELSE df_final[i - 1] \o bloco_programa(accs, conta_atual, lista[i], ano_atual)
  IN  df_final[Len(lista)]

-----------------------------------------------------------------------------
(* Period editor and annual summary (render_financeiro_view)               *)

\* the Movements the period editor loads into the form
registros_existentes(movs, mes_selecionado, ano_atual) ==
  SelectSeq(movs, LAMBDA m : m.mes_num = mes_selecionado /\ MovAno(m) = ano_atual)

\* the bank total the form shows for the period
val_rendimento_inicial(registros) ==
  FSum([i \in 1..Len(registros) |-> registros[i].total_rendimento])

\* the program's Movements the summaries add up: m.get('ano') == ano_atual
movs_demo(movs, prog, ano_atual) ==
  SelectSeq(movs, LAMBDA m : /\ m.programa = prog
                             /\ "ano" \in DOMAIN m
                             /\ m.ano = ano_atual)

\* sum(m[campo] for m in movs_demo)
soma_campo(movs_d, campo) == FSum([i \in 1..Len(movs_d) |-> movs_d[i][campo]])

\* the lines 08 to 15 of the demonstrative, Custeio and Capital
demonstrativo(accs, conta_atual, prog_demo, ano_atual) ==
  LET s_reprog_cust == get_saldo_anterior(accs, conta_atual, prog_demo, "Custeio", 1, ano_atual)
      s_reprog_cap == get_saldo_anterior(accs, conta_atual, prog_demo, "Capital", 1, ano_atual)
      movs_d == movs_demo(accs[conta_atual].movimentacoes, prog_demo, ano_atual)
      cred_cust == soma_campo(movs_d, "credito_custeio")
      cred_cap == soma_campo(movs_d, "credito_capital")
      rend_cust == soma_campo(movs_d, "rendimento_custeio")
      rend_cap == soma_campo(movs_d, "rendimento_capital")
      desp_cust == soma_campo(movs_d, "debito_custeio")
      desp_cap == soma_campo(movs_d, "debito_capital")
      total_rec_cust == FAdd(FAdd(s_reprog_cust, cred_cust), rend_cust)
      total_rec_cap == FAdd(FAdd(s_reprog_cap, cred_cap), rend_cap)
  IN  [saldo_reprogramado |-> [Custeio |-> s_reprog_cust, Capital |-> s_reprog_cap],
       creditado |-> [Custeio |-> cred_cust, Capital |-> cred_cap],
       rendimento |-> [Custeio |-> rend_cust, Capital |-> rend_cap],
       total_receita |-> [Custeio |-> total_rec_cust, Capital |-> total_rec_cap],
       despesas |-> [Custeio |-> desp_cust, Capital |-> desp_cap],
       saldo_a_reprogramar |-> [Custeio |-> FSub(total_rec_cust, desp_cust),
                                Capital |-> FSub(total_rec_cap, desp_cap)]]

\* dados_resumo: one row per program of the list
dados_resumo(accs, conta_atual, programas, ano_atual) ==
  Lista([i \in 1..Len(programas) |->
     LET prog == programas[i]
         saldo_anterior == get_saldo_anterior(accs, conta_atual, prog, "Total", 1, ano_atual)
         movs_ano == movs_demo(accs[conta_atual].movimentacoes, prog, ano_atual)
         credito_ano == soma_campo(movs_ano, "total_credito")
         rendimento_ano == soma_campo(movs_ano, "total_rendimento")
         debito_ano == soma_campo(movs_ano, "total_debito")
     IN  [Programas |-> prog, saldo_anterior |-> saldo_anterior,
          credito |-> credito_ano, rendimento |-> rendimento_ano,
          debito |-> debito_ano,
          saldo_final |-> FSub(FAdd(FAdd(saldo_anterior, credito_ano), rendimento_ano),
                               debito_ano)]])

-----------------------------------------------------------------------------
(* Empenhos (render_empenhos_global_view).  A record of the list keeps its *)
(* id, programa, numero_empenho, data_empenho, data_nota_fiscal and        *)
(* status; the text of a date is its fields <<year, month, day>>, the      *)
(* empty text <<>>.  No file is attached.                                  *)

\* save_empenhos_to_firebase: the list of the document
\* 'pdde_dados_gerais/empenhos' after the call (falha: set() raises)
save_empenhos_to_firebase(db, doc, lista_empenhos, falha) ==
  IF ~db THEN doc ELSE IF falha THEN doc ELSE lista_empenhos

\* d.get(k, padrao)
get(d, k, padrao) == IF k \in DOMAIN d THEN d[k] ELSE padrao

\* a < b for the texts of two dates
texto_menor(a, b) ==
  IF a = <<>> THEN b # <<>>
  ELSE IF b = <<>> THEN FALSE
  ELSE \/ a[1] < b[1]
       \/ a[1] = b[1] /\ a[2] < b[2]
       \/ a[1] = b[1] /\ a[2] = b[2] /\ a[3] < b[3]

\* the label of a record in the selectbox ("??/??/????" is <<>>)
label(emp) ==
  << IF data_valida(get(emp, "data_empenho", <<>>)) THEN emp.data_empenho ELSE <<>>,
     get(emp, "programa", "?"), get(emp, "numero_empenho", "?") >>

\* record j follows record i in todos_empenhos_sorted: sorted by
\* data_empenho, reverse=True, equal keys in the order of the list
vem_depois(emps, i, j) ==
  \/ texto_menor(get(emps[j], "data_empenho", <<>>), get(emps[i], "data_empenho", <<>>))
  \/ get(emps[j], "data_empenho", <<>>) = get(emps[i], "data_empenho", <<>>) /\ i < j

\* the ids of mapa_ids: of the records with one label the last of
\* todos_empenhos_sorted is kept
mapa_ids(emps) ==
  { emps[i].id : i \in { i \in 1..Len(emps) :
                            \A j \in 1..Len(emps) :
                               label(emps[j]) = label(emps[i]) => ~vem_depois(emps, i, j) } }

\* what the user left in the form (e_data_nf is asked for EXECUTADO only)
Formularios ==
  { [e_prog |-> "Sem cadastro", e_num |-> "", e_data |-> <<CurrentYear + 4, 3, 1>>,
     e_status |-> "PENDENTE", e_data_nf |-> <<>>],
    [e_prog |-> "Sem cadastro", e_num |-> "", e_data |-> <<>>,
     e_status |-> "PENDENTE", e_data_nf |-> <<>>],
    [e_prog |-> "Sem cadastro", e_num |-> "", e_data |-> <<CurrentYear, 7, 10>>,
     e_status |-> "EXECUTADO", e_data_nf |-> <<>>],
    [e_prog |-> "Sem cadastro", e_num |-> "", e_data |-> <<CurrentYear, 7, 10>>,
     e_status |-> "EXECUTADO", e_data_nf |-> <<CurrentYear, 7, 20>>] }

\* process_save goes past its two checks
formulario_aceito(form) ==
  /\ form.e_data # <<>>
  /\ ~(form.e_status = "EXECUTADO" /\ form.e_data_nf = <<>>)

payload(form) ==
  [programa |-> form.e_prog, numero_empenho |-> form.e_num,
   data_empenho |-> form.e_data, data_nota_fiscal |-> form.e_data_nf,
   status |-> form.e_status]

\* d.update(p)
update(d, p) ==
  [k \in DOMAIN d \cup DOMAIN p |-> IF k \in DOMAIN p THEN p[k] ELSE d[k]]

\* the first index of the list whose record has the id, 0 for -1
idx(emps, emp_id) ==
  IF \E i \in 1..Len(emps) : emps[i].id = emp_id
  THEN CHOOSE i \in 1..Len(emps) :
         /\ emps[i].id = emp_id
         /\ \A j \in 1..(i - 1) : emps[j].id # emp_id
  ELSE 0

\* st.session_state['empenhos_global'] after process_save passed its checks
process_save(emps, form, emp_id_target, is_new) ==
  IF is_new THEN Append(emps, update(payload(form), [id |-> emp_id_target]))
  ELSE Lista([i \in 1..Len(emps) |->
                IF i = idx(emps, emp_id_target) THEN update(emps[i], payload(form))
                ELSE emps[i]])

\* str(datetime.now().timestamp()) for the saves of the model, in order of
\* time
Timestamps == <<"t1", "t2", "t3", "t4">>

\* the ids the two sessions and the document hold
ids_em_uso ==
  { empenhos_global[i].id : i \in 1..Len(empenhos_global) }
  \cup { empenhos_doc[i].id : i \in 1..Len(empenhos_doc) }
  \cup { empenhos_outra[i].id : i \in 1..Len(empenhos_outra) }

\* Timestamps[k] is the time of the click: the first no record carries
new_id(k) ==
  /\ k \in 1..Len(Timestamps)
  /\ Timestamps[k] \notin ids_em_uso
  /\ \A j \in 1..(k - 1) : Timestamps[j] \in ids_em_uso

\* the history record of an empenho handler (dados: the id; falhou: the
\* set() of the document raised)
AcaoEmpenho(op, emp_id, falha) ==
  [AcaoSimples(op, "", "") EXCEPT !.dados = <<emp_id>>, !.falhou = falha]

\* a handler of the first session ends: the list is saved when it changed
FimEmpenho(op, emp_id, mudou, lista, falha) ==
  /\ ~mudou => ~falha
  /\ empenhos_global' = (IF mudou THEN lista ELSE empenhos_global)
  /\ empenhos_doc' = (IF mudou
                      THEN save_empenhos_to_firebase(db_conn, empenhos_doc, lista, falha)
                      ELSE empenhos_doc)
  /\ last' = AcaoEmpenho(IF mudou THEN op ELSE "empenho_recusado", emp_id, falha)
  /\ nops' = nops + 1
  /\ UNCHANGED <<accounts, store, db_conn, available_years, renomeando, outra, recarregando, empenhos_outra, anos_outra>>

\* "Salvar Novo Empenho"
SalvarNovoEmpenho(form, k, falha) ==
  /\ nops < MaxOps
  /\ Livre
  /\ new_id(k)
  /\ FimEmpenho("salvar_novo_empenho", Timestamps[k], formulario_aceito(form),
                process_save(empenhos_global, form, Timestamps[k], TRUE), falha)

\* "Atualizar" with a record chosen in the selectbox
AtualizarEmpenho(id_selecionado, form, falha) ==
  /\ nops < MaxOps
  /\ Livre
  /\ id_selecionado \in mapa_ids(empenhos_global)
  /\ FimEmpenho("atualizar_empenho", id_selecionado, formulario_aceito(form),
                process_save(empenhos_global, form, id_selecionado, FALSE), falha)

\* "Excluir" with a record chosen in the selectbox: the record is popped
ExcluirEmpenho(id_selecionado, falha) ==
  /\ nops < MaxOps
  /\ Livre
  /\ id_selecionado \in mapa_ids(empenhos_global)
  /\ FimEmpenho("excluir_empenho", id_selecionado, idx(empenhos_global, id_selecionado) # 0,
                SubSeq(empenhos_global, 1, idx(empenhos_global, id_selecionado) - 1)
                  \o SubSeq(empenhos_global, idx(empenhos_global, id_selecionado) + 1,
                            Len(empenhos_global)),
                falha)

-----------------------------------------------------------------------------

Next ==
  \/ \E cr \in BOOLEAN, f \in BOOLEAN : Recarregar(cr, f)
  \/ \E f \in Falhas : RecarregarEmpenhos(f)
  \/ \E fo \in Formularios, k \in 1..Len(Timestamps), f \in Falhas : SalvarNovoEmpenho(fo, k, f)
  \/ \E e \in mapa_ids(empenhos_global), fo \in Formularios, f \in Falhas :
        AtualizarEmpenho(e, fo, f)
  \/ \E e \in mapa_ids(empenhos_global), f \in Falhas : ExcluirEmpenho(e, f)
  \/ \E c \in Contas, f \in Falhas : CriarConta(c, f)
  \/ \E c \in Contas, n \in Contas, f \in Falhas : RenomearConta(c, n, f)
  \/ \E f \in Falhas : RenomearLerAntigo(f)
  \/ \E f \in Falhas : RenomearGravarNovo(f)
  \/ \E f \in Falhas : RenomearApagarAntigo(f)
  \/ \E c \in Contas, f \in Falhas : ExcluirConta(c, f)
  \/ \E a \in AnosNovos : CriarExercicio(a)
  \/ \E c \in Contas, p \in Programas, f \in Falhas : AdicionarPrograma(c, p, f)
  \/ \E c \in Contas, p \in Programas, f \in Falhas : ExcluirPrograma(c, p, f)
  \/ \E c \in Contas, p \in Programas, s \in SaldosOpcoes, f \in Falhas :
        SalvarSaldoInicial(c, p, s[1], s[2], f)
  \/ \E c \in DOMAIN accounts, a \in available_years, m \in Meses,
         r \in Rendimentos, f \in Falhas :
        \E e \in [1..Len(accounts[c].programas) -> Entradas] :
          SalvarLancamento(c, a, m, r, e, f)

Spec == Init /\ [][Next]_vars

-----------------------------------------------------------------------------
(* The allocation engine on its own: calcular_rateio_rendimento applied to *)
(* the accounts of a session, over a wider range of opening balances and   *)
(* form inputs than the session above explores.                            *)

\* opening balances (Capital, Custeio) of the accounts the engine is run on:
\* those of the session, none, and balances of millions
SaldosRateio == SaldosOpcoes \cup { <<0, 0>>, <<1048576, 2097152>>, <<2097152, 0>> }

\* form inputs of one program: those of the session, and a debit that
\* exceeds the Capital balance
EntradasRateio ==
  Entradas \cup { [cred_cap |-> 0, cred_cus |-> 0, deb_cap |-> 3, deb_cus |-> 0] }

\* bank interest typed in the form: negative, none, positive, thousands
RendimentosRateio == Rendimentos \cup {-2, 0, 14336}

\* accounts with two programs and their opening balances set ...
ContasRateio ==
  { [ContaSemente EXCEPT
       !.saldos_iniciais =
          [p \in {"P1", "P2"} |->
             IF p = "P1" THEN [Capital |-> Float(s1[1]), Custeio |-> Float(s1[2])]
             ELSE [Capital |-> Float(s2[1]), Custeio |-> Float(s2[2])]]]
    : s1 \in SaldosRateio, s2 \in SaldosRateio }

\* ... or the same with January of the current year saved; the years of
\* the session are the current year and the year before, which the user
\* added
InitRateio ==
  /\ db_conn = FALSE
  /\ store = <<>>
  /\ accounts \in { [c \in {"A1"} |-> cd] :
                       cd \in ContasRateio \cup { ComJaneiro(cr) : cr \in ContasRateio } }
  /\ empenhos_doc = <<>>
  /\ empenhos_global = <<>>
  /\ renomeando = Parado
  /\ available_years = {CurrentYear - 1, CurrentYear}
  /\ last = [op |-> "init", conta |-> "", prog |-> "", ano |-> 0, mes |-> 0,
             rend |-> 0, dados |-> <<>>, novos |-> <<>>, substituidos |-> <<>>,
             antes |-> <<>>, guardado |-> <<>>, falhou |-> FALSE,
             novo_nome |-> "", repete |-> FALSE, sucesso |-> FALSE]
  /\ nops = 0
  /\ outra = <<>>
  /\ recarregando = "parado"
  /\ empenhos_outra = <<>>
  /\ anos_outra = {}

Calcular_e_grava(conta_atual, ano_atual, mes_selecionado, rendimento_total, entradas) ==
  /\ nops = 0
  /\ conta_atual \in DOMAIN accounts
  /\ accounts[conta_atual].programas # <<>>
  /\ formulario_renderizado(available_years, ano_atual)
  /\ \E dados_entrada \in {montar_dados_entrada(accounts[conta_atual].programas, entradas)} :
       \E novos_registros \in {calcular_rateio_rendimento(accounts, conta_atual,
                                   mes_selecionado, ano_atual, rendimento_total,
                                   dados_entrada)} :
         /\ last' = Acao("calcular", conta_atual, "", ano_atual, mes_selecionado,
                         rendimento_total, dados_entrada, novos_registros, <<>>)
         /\ accounts' = [accounts EXCEPT
                           ![conta_atual].movimentacoes =
                              nova_lista(@, novos_registros, mes_selecionado, ano_atual)]
  /\ nops' = nops + 1
  /\ UNCHANGED <<empenhos_doc, empenhos_global, renomeando, store, db_conn, available_years, outra, recarregando, empenhos_outra, anos_outra>>

\* one call of calcular_rateio_rendimento with the form's values; the call
\* reads the session and writes nothing, so a behaviour makes one call
Calcular(conta_atual, ano_atual, mes_selecionado, rendimento_total, entradas) ==
  /\ nops = 0
  /\ conta_atual \in DOMAIN accounts
  /\ accounts[conta_atual].programas # <<>>
  /\ formulario_renderizado(available_years, ano_atual)
  /\ \E dados_entrada \in {montar_dados_entrada(accounts[conta_atual].programas, entradas)} :
       last' = Acao("calcular", conta_atual, "", ano_atual, mes_selecionado,
                    rendimento_total, dados_entrada,
                    calcular_rateio_rendimento(accounts, conta_atual, mes_selecionado,
                                               ano_atual, rendimento_total,
                                               dados_entrada),
                    <<>>)
  /\ nops' = nops + 1
  /\ UNCHANGED <<empenhos_doc, empenhos_global, renomeando, accounts, store, db_conn, available_years, outra, recarregando, empenhos_outra, anos_outra>>

NextRateio ==
  \E c \in DOMAIN accounts, a \in available_years, m \in Meses,
     r \in RendimentosRateio :
    \E e \in [1..Len(accounts[c].programas) -> EntradasRateio] :
      Calcular(c, a, m, r, e)

SpecRateio == InitRateio /\ [][NextRateio]_vars

-----------------------------------------------------------------------------
(* The readers of the movement list on their own: the statement and the    *)
(* summaries rendered over ledgers that several saves built, among them a  *)
(* December, a program deleted after its month was saved, and a month a    *)
(* release without the 'ano' field saved.                                  *)

\* the account record a period save leaves in memory
salvar_periodo(conta_data, mes_selecionado, ano_atual, rendimento_total, entradas) ==
  [conta_data EXCEPT
     !.movimentacoes =
        nova_lista(@,
                   calcular_rateio_rendimento(
                     [c \in {"A1"} |-> conta_data], "A1", mes_selecionado, ano_atual,
                     rendimento_total,
                     montar_dados_entrada(conta_data.programas, entradas)),
                   mes_selecionado, ano_atual)]

\* a Movement as the release before multi-year support stored it
sem_ano(mov) == [f \in DOMAIN mov \ {"ano"} |-> mov[f]]

\* an account whose Movements were all stored by that release
ContaLegada(conta_data) ==
  [conta_data EXCEPT
     !.movimentacoes = Lista([i \in 1..Len(@) |-> sem_ano(@[i])])]

\* an account whose first program was deleted after the saves
SemPrimeiroPrograma(conta_data) ==
  [conta_data EXCEPT
     !.programas = Remove(@, @[1]),
     !.saldos_iniciais = DictDel(@, conta_data.programas[1])]

\* the periods saved: December of last year, and January, February and
\* December of the current year
PeriodosLeitura ==
  { <<CurrentYear - 1, 12>>, <<CurrentYear, 1>>, <<CurrentYear, 2>>, <<CurrentYear, 12>> }

\* inputs of the two programs: a credit to both, a credit to the first
EntradasLeitura ==
  { [i \in 1..2 |-> CHOOSE x \in Entradas : x.cred_cap = 3],
    [i \in 1..2 |-> IF i = 1 THEN CHOOSE x \in Entradas : x.cred_cap = 3
                     ELSE CHOOSE x \in Entradas : x.cred_cap = 0] }

\* rounds of saves with bank interest 4, one after the other: a round
\* leads to the accounts a save of one of its periods with one of its
\* inputs leaves and, with junta, to those before it as well
RECURSIVE Rodadas(_, _)
Rodadas(contas, rodadas) ==
  IF rodadas = <<>> THEN contas
  ELSE Rodadas((IF rodadas[1].junta THEN contas ELSE {})
                 \cup { salvar_periodo(cd, per[2], per[1], 4, e) :
                          cd \in contas, per \in rodadas[1].periodos,
                          e \in rodadas[1].entradas },
               Tail(rodadas))

\* up to two saves of the periods over an account with opening balances
\* and over one the earlier release stored; the twelve months of the
\* current year saved in order, each with a credit to the first program
PlanosLeitura ==
  { [contas |-> {ContaComSaldos, ContaLegada(ComJaneiro(ContaComSaldos))},
     rodadas |-> Lista([k \in 1..2 |->
                   [periodos |-> PeriodosLeitura, entradas |-> EntradasLeitura,
                    junta |-> TRUE]])],
    [contas |-> {ContaComSaldos},
     rodadas |-> Lista([k \in 1..12 |->
                   [periodos |-> {<<CurrentYear, k>>},
                    entradas |-> { e \in EntradasLeitura : e[2].cred_cap = 0 },
                    junta |-> FALSE]])] }

\* the accounts of the plans, and each of them with its first program
\* deleted
LedgersLeitura ==
  UNION { {cd, SemPrimeiroPrograma(cd)} :
            cd \in UNION { Rodadas(pl.contas, pl.rodadas) : pl \in PlanosLeitura } }

\* a session built without a connection; or, when it holds a Movement
\* without 'ano', one that loaded the collection and saved each step:
\* every Movement the program creates has 'ano'
InitLeitura ==
  /\ accounts \in { [c \in {"A1"} |-> cd] : cd \in LedgersLeitura }
  /\ db_conn = (\E c \in DOMAIN accounts : \E i \in 1..Len(accounts[c].movimentacoes) :
                   "ano" \notin DOMAIN accounts[c].movimentacoes[i])
  /\ store = (IF db_conn THEN accounts ELSE <<>>)
  /\ empenhos_doc = <<>>
  /\ empenhos_global = <<>>
  /\ renomeando = Parado
  /\ available_years = anos_encontrados(accounts, empenhos_global)
  /\ last = [op |-> "init", conta |-> "", prog |-> "", ano |-> 0, mes |-> 0,
             rend |-> 0, dados |-> <<>>, novos |-> <<>>, substituidos |-> <<>>,
             antes |-> <<>>, guardado |-> <<>>, falhou |-> FALSE,
             novo_nome |-> "", repete |-> FALSE, sucesso |-> FALSE]
  /\ nops = 0
  /\ outra = <<>>
  /\ recarregando = "parado"
  /\ empenhos_outra = <<>>
  /\ anos_outra = {}

\* the statement tab rendered for a year and a program filter; rendering
\* reads the session and writes nothing, so a behaviour renders once
VerExtrato(conta_atual, ano_atual, filtro_prog) ==
  /\ nops = 0
  /\ conta_atual \in DOMAIN accounts
  /\ accounts[conta_atual].programas # <<>>
  /\ formulario_renderizado(available_years, ano_atual)
  /\ filtro_prog \in {"Todos"} \cup SeqToSet(accounts[conta_atual].programas)
  /\ last' = [AcaoSimples("ver_extrato", conta_atual, filtro_prog)
                EXCEPT !.ano = ano_atual,
                       !.novos = extrato_mensal(accounts, conta_atual, ano_atual,
                                                accounts[conta_atual].programas,
                                                filtro_prog)]
  /\ nops' = nops + 1
  /\ UNCHANGED <<empenhos_doc, empenhos_global, renomeando, accounts, store, db_conn, available_years, outra, recarregando, empenhos_outra, anos_outra>>

\* the summary tab rendered for a year and a program to detail
VerResumo(conta_atual, ano_atual, prog_demo) ==
  /\ nops = 0
  /\ conta_atual \in DOMAIN accounts
  /\ resumo_renderizado(available_years, ano_atual)
  /\ prog_demo \in SeqToSet(accounts[conta_atual].programas)
  /\ last' = [AcaoSimples("ver_resumo", conta_atual, prog_demo)
                EXCEPT !.ano = ano_atual,
                       !.dados = demonstrativo(accounts, conta_atual, prog_demo, ano_atual),
                       !.novos = dados_resumo(accounts, conta_atual,
                                              accounts[conta_atual].programas, ano_atual)]
  /\ nops' = nops + 1
  /\ UNCHANGED <<empenhos_doc, empenhos_global, renomeando, accounts, store, db_conn, available_years, outra, recarregando, empenhos_outra, anos_outra>>

NextLeitura ==
  \/ \E c \in DOMAIN accounts, a \in available_years,
         f \in {"Todos"} \cup Programas : VerExtrato(c, a, f)
  \/ \E c \in DOMAIN accounts, a \in available_years, p \in Programas :
        VerResumo(c, a, p)

SpecLeitura == InitLeitura /\ [][NextLeitura]_vars

-----------------------------------------------------------------------------
(* Two sessions on the same collection.  Each browser session has its own  *)
(* st.session_state, filled by init_session_state from the collection;     *)
(* `accounts` is the first session's copy and `outra` the second's.  The   *)
(* second session runs the same handlers on its own copy; each of its      *)
(* store calls may fall between two store calls of a rename the first      *)
(* session has under way.                                                  *)

\* both sessions have loaded the collection: an account with its opening
\* balances, or with January of the current year saved as well
InitSessoes ==
  /\ db_conn = TRUE
  /\ store \in { [c \in {"A1"} |-> ContaComSaldos],
                  [c \in {"A1"} |-> ComJaneiro(ContaComSaldos)] }
  /\ accounts = load_accounts_from_firebase(db_conn, store, FALSE)
  /\ outra = load_accounts_from_firebase(db_conn, store, FALSE)
  /\ empenhos_doc \in EmpenhosIniciais
  /\ empenhos_global = load_empenhos_from_firebase(db_conn, empenhos_doc, FALSE)
  /\ available_years = anos_encontrados(accounts, empenhos_global)
  /\ renomeando = Parado
  /\ last = [op |-> "init", conta |-> "", prog |-> "", ano |-> 0, mes |-> 0,
             rend |-> 0, dados |-> <<>>, novos |-> <<>>, substituidos |-> <<>>,
             antes |-> <<>>, guardado |-> <<>>, falhou |-> FALSE,
             novo_nome |-> "", repete |-> FALSE, sucesso |-> FALSE]
  /\ nops = 0
  /\ recarregando = "parado"
  /\ empenhos_outra = load_empenhos_from_firebase(db_conn, empenhos_doc, FALSE)
  /\ anos_outra = anos_encontrados(outra, empenhos_outra)

\* the account creation handler run by the second session
CriarContaOutra(nova_conta, falha) ==
  /\ nops < MaxOps
  /\ nova_conta \notin DOMAIN outra
  /\ outra' = DictSet(outra, nova_conta, nova_estrutura)
  /\ store' = save_account_to_firebase(db_conn, store, nova_conta, nova_estrutura, falha)
  /\ last' = [AcaoSimples("criar_conta_outra", nova_conta, "") EXCEPT !.falhou = falha, !.antes = outra]
  /\ nops' = nops + 1
  /\ UNCHANGED <<empenhos_doc, empenhos_global, renomeando, accounts, db_conn, available_years, recarregando, empenhos_outra, anos_outra>>

\* the save handler of render_financeiro_view run by the second session
SalvarLancamentoOutra(conta_atual, ano_atual, mes_selecionado, rendimento_total, entradas, falha) ==
  /\ nops < MaxOps
  /\ conta_atual \in DOMAIN outra
  /\ outra[conta_atual].programas # <<>>
  /\ formulario_renderizado(anos_outra, ano_atual)
  /\ \E dados_entrada \in {montar_dados_entrada(outra[conta_atual].programas, entradas)} :
       \E novos_registros \in {calcular_rateio_rendimento(outra, conta_atual,
                                   mes_selecionado, ano_atual, rendimento_total,
                                   dados_entrada)} :
         \E conta \in {[outra[conta_atual] EXCEPT
                          !.movimentacoes =
                             nova_lista(outra[conta_atual].movimentacoes,
                                        novos_registros, mes_selecionado, ano_atual)]} :
           LET substituidos ==
                 SelectSeq(outra[conta_atual].movimentacoes,
                           LAMBDA m : m.mes_num = mes_selecionado /\ MovAno(m) = ano_atual)
           IN  /\ outra' = [outra EXCEPT ![conta_atual] = conta]
               /\ store' = save_account_to_firebase(db_conn, store, conta_atual, conta, falha)
               /\ last' = [Acao("salvar_lancamento_outra", conta_atual, "", ano_atual,
                                mes_selecionado, rendimento_total, dados_entrada,
                                novos_registros,
                                Lista([i \in 1..Len(substituidos) |->
                                         substituidos[i].programa]))
                             EXCEPT !.falhou = falha, !.antes = outra]
  /\ nops' = nops + 1
  /\ UNCHANGED <<empenhos_doc, empenhos_global, renomeando, accounts, db_conn, available_years, recarregando, empenhos_outra, anos_outra>>

\* "Salvar Novo Empenho" pressed in the second session
SalvarNovoEmpenhoOutra(form, k, falha) ==
  /\ nops < MaxOps
  /\ new_id(k)
  /\ formulario_aceito(form)
  /\ empenhos_outra' = process_save(empenhos_outra, form, Timestamps[k], TRUE)
  /\ empenhos_doc' = save_empenhos_to_firebase(db_conn, empenhos_doc, empenhos_outra', falha)
  /\ last' = AcaoEmpenho("salvar_novo_empenho_outra", Timestamps[k], falha)
  /\ nops' = nops + 1
  /\ UNCHANGED <<accounts, store, db_conn, available_years, renomeando, outra, recarregando, empenhos_global, anos_outra>>

NextSessoes ==
  \/ \E cr \in BOOLEAN, f \in BOOLEAN : Recarregar(cr, f)
  \/ \E f \in Falhas : RecarregarEmpenhos(f)
  \/ \E fo \in Formularios, k \in 1..Len(Timestamps), f \in Falhas :
        SalvarNovoEmpenhoOutra(fo, k, f)
  \/ \E c \in DOMAIN accounts, a \in available_years, m \in Meses,
         r \in Rendimentos, f \in Falhas :
        \E e \in [1..Len(accounts[c].programas) -> Entradas] :
          SalvarLancamento(c, a, m, r, e, f)
  \/ \E c \in DOMAIN outra, a \in anos_outra, m \in Meses,
         r \in Rendimentos, f \in Falhas :
        \E e \in [1..Len(outra[c].programas) -> Entradas] :
          SalvarLancamentoOutra(c, a, m, r, e, f)
  \/ \E c \in Contas, f \in Falhas : CriarContaOutra(c, f)
  \/ \E c \in Contas, n \in Contas, f \in Falhas : RenomearConta(c, n, f)
  \/ \E f \in Falhas : RenomearLerAntigo(f)
  \/ \E f \in Falhas : RenomearGravarNovo(f)
  \/ \E f \in Falhas : RenomearApagarAntigo(f)

SpecSessoes == InitSessoes /\ [][NextSessoes]_vars

-----------------------------------------------------------------------------
(* The two computations next to their caller: a session that asks for a    *)
(* balance, runs the engine on form values, or saves a period.             *)

\* one call of get_saldo_anterior; the result is kept in last.novos
ConsultarSaldo(account_name, programa, tipo_recurso, mes_alvo, ano_alvo) ==
  /\ nops = 0
  /\ account_name \in DOMAIN accounts
  /\ last' = [AcaoSimples("saldo_anterior", account_name, programa)
                EXCEPT !.ano = ano_alvo, !.mes = mes_alvo,
                       !.novos = <<get_saldo_anterior(accounts, account_name, programa,
                                                      tipo_recurso, mes_alvo, ano_alvo)>>]
  /\ nops' = nops + 1
  /\ UNCHANGED <<empenhos_doc, empenhos_global, renomeando, accounts, store, db_conn, available_years, outra, recarregando, empenhos_outra, anos_outra>>

NextChamadas ==
  \/ \E c \in DOMAIN accounts, p \in Programas, t \in TiposRecurso,
         m \in Meses \cup {12}, a \in Anos : ConsultarSaldo(c, p, t, m, a)
  \/ \E c \in DOMAIN accounts, a \in available_years, m \in Meses,
         r \in RendimentosRateio :
        \E e \in [1..Len(accounts[c].programas) -> Entradas] :
          Calcular(c, a, m, r, e)
  \/ \E c \in DOMAIN accounts, a \in available_years, m \in Meses,
         r \in Rendimentos, f \in Falhas :
        \E e \in [1..Len(accounts[c].programas) -> Entradas] :
          SalvarLancamento(c, a, m, r, e, f)

SpecChamadas == InitSessoes /\ [][NextChamadas]_vars

-----------------------------------------------------------------------------
(* Properties                                                              *)

\* target periods the balance is asked for: every explored period, and one
\* later than all of them
MesesAlvo == Meses \cup {12}

\* months since year 0: the (year, month) lexicographic order as one number
Ordinal(ano, mes) == ano * 12 + mes

\* credit + interest - debit of one Movement for a resource kind
Componente(mov, tipo) ==
  IF tipo = "Capital"
  THEN FSub(FAdd(mov.credito_capital, mov.rendimento_capital), mov.debito_capital)
  ELSE IF tipo = "Custeio"
  THEN FSub(FAdd(mov.credito_custeio, mov.rendimento_custeio), mov.debito_custeio)
  ELSE FSub(FAdd(mov.total_credito, mov.total_rendimento), mov.total_debito)

\* the Movements of a program whose period is strictly before (ano, mes)
Anteriores(movs, programa, mes, ano) ==
  SelectSeq(movs, LAMBDA m : /\ m.programa = programa
                             /\ Ordinal(MovAno(m), m.mes_num) < Ordinal(ano, mes))

\* the opening balance of a program for a resource kind (Capital + Custeio
\* for Total), 0 without entry
Abertura(conta_data, programa, tipo) ==
  IF programa \notin DOMAIN conta_data.saldos_iniciais THEN FZero
  ELSE IF tipo = "Total"
  THEN FAdd(conta_data.saldos_iniciais[programa].Capital,
            conta_data.saldos_iniciais[programa].Custeio)
  ELSE conta_data.saldos_iniciais[programa][tipo]

\* 2^-20, below the 1e-6 that amounts are compared within
Tolerancia == <<0, -72, 2^25, 0>>

\* x and y differ by no more than the tolerance
Perto(x, y) == FLeq(FAbs(FSub(x, y)), Tolerancia)

\* opening balance plus the earlier Movements' components, for one kind,
\* added one after the other in the ledger's order
SaldoEsperado(conta_data, programa, tipo, mes, ano) ==
  LET ant == Anteriores(conta_data.movimentacoes, programa, mes, ano)
      soma[i \in 0..Len(ant)] ==
        IF i = 0 THEN FAdd(FZero, Abertura(conta_data, programa, tipo))
        ELSE FAdd(soma[i - 1], Componente(ant[i], tipo))
  IN  soma[Len(ant)]

\* C1: for every account, program, resource kind and target period,
\* get_saldo_anterior is the opening balance of the kind (Capital + Custeio
\* for Total, 0 without an entry) plus credit + interest - debit of the
\* kind of exactly the program's Movements strictly before the target
\* period, added in the ledger's order; with no such Movement it is the
\* opening balance.
C1_SaldoAnterior ==
  \A c \in DOMAIN accounts, p \in Programas, a \in Anos, m \in MesesAlvo :
    \A t \in TiposRecurso :
      LET cd == accounts[c]
          saldo == get_saldo_anterior(accounts, c, p, t, m, a)
      IN  /\ saldo = SaldoEsperado(cd, p, t, m, a)
          /\ Anteriores(cd.movimentacoes, p, m, a) = <<>> =>
                FEq(saldo, Abertura(cd, p, t))

\* C1 witness: an account holds Movements of two programs, one of P1 in a
\* year before the target year but a later month, and one of P1 at the
\* target period itself; the balance differs from the opening balance.
C1_Witness ==
  \E c \in DOMAIN accounts :
    LET movs == accounts[c].movimentacoes
    IN  /\ \E i \in 1..Len(movs) :
              /\ movs[i].programa = "P1" /\ MovAno(movs[i]) = CurrentYear - 1
              /\ movs[i].mes_num = 2
        /\ \E i \in 1..Len(movs) :
              /\ movs[i].programa = "P1" /\ MovAno(movs[i]) = CurrentYear
              /\ movs[i].mes_num = 1
              /\ ~EhZero(Componente(movs[i], "Capital"))
        /\ \E i \in 1..Len(movs) : movs[i].programa = "P2"
        /\ get_saldo_anterior(accounts, c, "P1", "Capital", 1, CurrentYear)
             # Abertura(accounts[c], "P1", "Capital")
        /\ get_saldo_anterior(accounts, c, "P1", "Capital", 1, CurrentYear)
             # get_saldo_anterior(accounts, c, "P1", "Capital", 2, CurrentYear)

-----------------------------------------------------------------------------
(* The allocation of the last save or engine call, restated from the       *)
(* ledger the call started with (last.antes) and the form inputs           *)
(* (last.dados), independently of the engine.                              *)

Tipos == {"Capital", "Custeio"}

\* the last action computed an allocation
Rateou == last.op \in {"calcular", "salvar_lancamento"}

\* the pre-interest balance of the i-th program of the input:
\* prior balance + credit - debit of the kind
PreRendimento(i, tipo) ==
  LET v == last.dados[i]
      anterior == SaldoEsperado(last.antes[last.conta], v.prog, tipo, last.mes, last.ano)
  IN  IF tipo = "Capital"
      THEN FSub(FAdd(anterior, Float(v.cred_cap)), Float(v.deb_cap))
      ELSE FSub(FAdd(anterior, Float(v.cred_cus)), Float(v.deb_cus))

\* the clamped base: max(0, pre-interest balance)
BaseEsperada(i, tipo) == Max0(PreRendimento(i, tipo))

\* the sum of all clamped bases of the call
TotalEsperado ==
  FSum([i \in 1..Len(last.dados) |->
          FAdd(BaseEsperada(i, "Capital"), BaseEsperada(i, "Custeio"))])

\* the interest the call attributed to the i-th program's kind
Rend(i, tipo) ==
  IF tipo = "Capital" THEN last.novos[i].rendimento_capital
  ELSE last.novos[i].rendimento_custeio

\* the interest of both kinds the call attributed, summed over the programs
RendimentoRateado ==
  FSum([i \in 1..Len(last.novos) |-> FAdd(Rend(i, "Capital"), Rend(i, "Custeio"))])

\* C2: whenever the sum of all clamped bases of an allocation is greater
\* than zero, rendimento_capital plus rendimento_custeio summed over all
\* programs of the input is the bank's total interest, whether that total
\* is positive or negative: the float sum differs from the total by the
\* rounding of the divisions, products and additions only (it is within
\* 1e-6 of it), the equality being one of exact arithmetic.
C2_Conservacao ==
  (Rateou /\ FPos(TotalEsperado)) =>
     /\ Len(last.novos) = Len(last.dados)
     /\ Perto(RendimentoRateado, Float(last.rend))

\* C2 witness: a negative bank total divided among three or more positive
\* bases, none of which takes it all, the shares not adding up to the total
\* to the last bit.
C2_Witness ==
  /\ Rateou /\ last.rend < 0 /\ FPos(TotalEsperado)
  /\ RendimentoRateado # Float(last.rend)
  /\ Cardinality({ <<i, t>> \in (1..Len(last.novos)) \X Tipos :
                     FNegativo(Rend(i, t)) }) >= 3

\* C3: when every clamped base of an allocation is zero, every interest
\* field of every program is set to 0, whatever the bank's total, and the
\* allocation still yields one record per program of the input.
C3_Degenerado ==
  (Rateou /\ EhZero(TotalEsperado)) =>
     /\ Len(last.novos) = Len(last.dados)
     /\ \A i \in 1..Len(last.novos) :
           /\ EhZero(last.novos[i].rendimento_capital)
           /\ EhZero(last.novos[i].rendimento_custeio)
           /\ EhZero(last.novos[i].total_rendimento)

\* C3 witness: a nonzero bank total meets two programs whose bases are all
\* zero, one of them because its negative balance was clamped.
C3_Witness ==
  /\ Rateou /\ last.rend # 0 /\ EhZero(TotalEsperado)
  /\ Len(last.novos) = 2
  /\ \E i \in 1..Len(last.dados), t \in Tipos : FNegativo(PreRendimento(i, t))

\* C4 as stated: for every program and each of Capital and Custeio of an
\* allocation, allocated interest * sum of all clamped bases = bank total *
\* the program's clamped base for the kind, exactly.
C4_Proporcional ==
  Rateou =>
     \A i \in 1..Len(last.dados), t \in Tipos :
        /\ FMul(Rend(i, t), TotalEsperado) = FMul(Float(last.rend), BaseEsperada(i, t))
        /\ saldos_base(last.antes, last.conta, last.mes, last.ano, last.dados[i])[t]
             = BaseEsperada(i, t)

\* x and y differ by at most 2^-50 of the magnitude of y (a few units in
\* the last place of a float)
PertoRelativo(x, y) == FLeq(FAbs(FSub(x, y)), FMul(<<0, -102, 2^25, 0>>, FAbs(y)))

\* C4: the clamped base of every program and kind of an allocation is
\* max(0, prior balance + credit - debit) for the saved month; and when
\* the sum of all clamped bases is greater than zero, the interest
\* allocated to a program's kind is the float bank total * (clamped base /
\* sum of the clamped bases), the quotient rounded and then the product, so
\* that allocated interest * sum of the bases and bank total * clamped
\* base, as floats, differ by at most 2^-50 of their magnitude, whatever
\* the size of the amounts.
C4_ProporcionalArredondado ==
  Rateou =>
     \A i \in 1..Len(last.dados), t \in Tipos :
        /\ saldos_base(last.antes, last.conta, last.mes, last.ano, last.dados[i])[t]
             = BaseEsperada(i, t)
        /\ FPos(TotalEsperado) =>
              /\ Rend(i, t) = FMul(Float(last.rend), FDiv(BaseEsperada(i, t), TotalEsperado))
              /\ PertoRelativo(FMul(Rend(i, t), TotalEsperado),
                               FMul(Float(last.rend), BaseEsperada(i, t)))

\* C4 witness: two programs get different nonzero interests for the same
\* kind, one program gets different interests for its two kinds, and with
\* balances of millions the two products differ by more than 1e-6.
C4_Witness ==
  /\ Rateou /\ Len(last.novos) = 2
  /\ ~EhZero(Rend(1, "Capital")) /\ ~EhZero(Rend(2, "Capital"))
  /\ Rend(1, "Capital") # Rend(2, "Capital")
  /\ ~EhZero(Rend(1, "Custeio")) /\ Rend(1, "Custeio") # Rend(1, "Capital")
  /\ \E i \in 1..2, t \in Tipos :
        ~Perto(FMul(Rend(i, t), TotalEsperado), FMul(Float(last.rend), BaseEsperada(i, t)))

\* the sum of the pre-interest balances that are greater than zero
SomaPositivos ==
  FSum([i \in 1..Len(last.dados) |->
          FAdd(IF FPos(PreRendimento(i, "Capital"))
               THEN PreRendimento(i, "Capital") ELSE FZero,
               IF FPos(PreRendimento(i, "Custeio"))
               THEN PreRendimento(i, "Custeio") ELSE FZero)])

\* C5: every base of an allocation is >= 0; a program and kind whose
\* pre-interest balance is zero or negative gets 0 interest and takes
\* nothing from the total the others divide; every share lies in [0, 1].
C5_SemPesoNegativo ==
  Rateou =>
     LET bases == bases_programas(last.antes, last.conta, last.mes, last.ano, last.dados)
         total == total_saldo_conta(bases)
     IN  /\ total = SomaPositivos
         /\ \A i \in 1..Len(last.dados), t \in Tipos :
               /\ ~FNegativo(bases[i][t])
               /\ ~FPos(PreRendimento(i, t)) => EhZero(Rend(i, t))
               /\ ~FNegativo(fator(bases[i][t], total))
               /\ FLeq(fator(bases[i][t], total), Float(1))

\* C5 witness: one pre-interest balance is negative while another program
\* has a positive one and receives part of a nonzero bank total.
C5_Witness ==
  /\ Rateou /\ last.rend # 0
  /\ \E i \in 1..Len(last.dados), t \in Tipos :
        /\ FNegativo(PreRendimento(i, t))
        /\ EhZero(Rend(i, t))
        /\ \E j \in 1..Len(last.dados), u \in Tipos :
              /\ j # i
              /\ FPos(PreRendimento(j, u))
              /\ ~EhZero(Rend(j, u))
              /\ Rend(j, u) # Float(last.rend)

-----------------------------------------------------------------------------
(* The period save                                                         *)

Salvou == last.op = "salvar_lancamento"

\* the Movements of a list whose period is (ano, mes), in the list's order
DoPeriodo(movs, ano, mes) ==
  SelectSeq(movs, LAMBDA m : m.mes_num = mes /\ MovAno(m) = ano)

\* the Movements of a list whose period is not (ano, mes)
ForaDoPeriodo(movs, ano, mes) ==
  SelectSeq(movs, LAMBDA m : ~(m.mes_num = mes /\ MovAno(m) = ano))

\* C6: after a save of (account, year, month), the account's Movements of
\* that period are exactly the newly computed records, one per program of
\* the input; every Movement stored for the period before, also of a
\* program that is not in the input, is gone.
C6_SubstituiPeriodo ==
  Salvou =>
     LET doPeriodo == DoPeriodo(accounts[last.conta].movimentacoes, last.ano, last.mes)
     IN  /\ doPeriodo = last.novos
         /\ Len(doPeriodo) = Len(last.dados)
         /\ \A i \in 1..Len(doPeriodo) :
               /\ doPeriodo[i].programa = last.dados[i].prog
               /\ doPeriodo[i].programa = accounts[last.conta].programas[i]
         /\ \A i \in 1..Len(doPeriodo), j \in 1..Len(doPeriodo) :
               doPeriodo[i].programa = doPeriodo[j].programa => i = j

\* C6 witness: the save replaced the entries of two programs of the period,
\* one of a program since deleted from the account, by one new record.
C6_Witness ==
  /\ Salvou
  /\ Len(last.substituidos) = 2
  /\ \E p \in SeqToSet(last.substituidos) :
        \A i \in 1..Len(last.dados) : last.dados[i].prog # p
  /\ Len(DoPeriodo(accounts[last.conta].movimentacoes, last.ano, last.mes)) = 1
  /\ DoPeriodo(accounts[last.conta].movimentacoes, last.ano, last.mes)
       # DoPeriodo(last.antes[last.conta].movimentacoes, last.ano, last.mes)

\* C7: a save that repeats the save just before it (same account, year,
\* month, credits, debits and bank total) leaves the ledger as the first
\* save left it: one Movement per input program for the period, with the
\* same values, and no duplicates.
C7_Idempotente ==
  (Salvou /\ last.repete) =>
     /\ accounts = last.antes
     /\ Len(DoPeriodo(accounts[last.conta].movimentacoes, last.ano, last.mes))
          = Len(last.dados)

\* C7 witness: a repeated save of a period that gave two programs nonzero
\* interest and replaced the two records of the first save.
C7_Witness ==
  /\ Salvou /\ last.repete
  /\ Len(last.novos) = 2 /\ Len(last.substituidos) = 2
  /\ \A i \in 1..2 : ~EhZero(last.novos[i].total_rendimento)
  /\ ~EhZero(last.novos[1].credito_capital)

\* C8: a save of (year, month) of one account leaves unchanged the
\* account's Movements of every other period, its program list and opening
\* balances, and every other account.
C8_Moldura ==
  Salvou =>
     /\ DOMAIN accounts = DOMAIN last.antes
     /\ \A c \in DOMAIN accounts \ {last.conta} : accounts[c] = last.antes[c]
     /\ accounts[last.conta].programas = last.antes[last.conta].programas
     /\ accounts[last.conta].saldos_iniciais = last.antes[last.conta].saldos_iniciais
     /\ ForaDoPeriodo(accounts[last.conta].movimentacoes, last.ano, last.mes)
          = ForaDoPeriodo(last.antes[last.conta].movimentacoes, last.ano, last.mes)

\* C8 witness: a save that changed the saved period while the account held
\* Movements of another month of the same year, and another account exists.
C8_Witness ==
  /\ Salvou
  /\ DOMAIN accounts \ {last.conta} # {}
  /\ \E i \in 1..Len(accounts[last.conta].movimentacoes) :
        LET m == accounts[last.conta].movimentacoes[i]
        IN  MovAno(m) = last.ano /\ m.mes_num # last.mes
  /\ accounts[last.conta].movimentacoes # last.antes[last.conta].movimentacoes

\* C9: every account holds at most one Movement per (program, year, month).
C9_UmPorChave ==
  \A c \in DOMAIN accounts :
    LET movs == accounts[c].movimentacoes
    IN  \A i \in 1..Len(movs), j \in 1..Len(movs) :
          (/\ movs[i].programa = movs[j].programa
           /\ MovAno(movs[i]) = MovAno(movs[j])
           /\ movs[i].mes_num = movs[j].mes_num) => i = j

\* C9 witness: an account holds two programs' Movements of two periods
\* after a save over a period that already had Movements.
C9_Witness ==
  /\ Salvou
  /\ last.substituidos # <<>>
  /\ Len(accounts[last.conta].movimentacoes) = 4

\* every stored Movement has total_credito = credito_capital +
\* credito_custeio, total_debito = debito_capital + debito_custeio and
\* total_rendimento = rendimento_capital + rendimento_custeio
TotaisDosLancamentos ==
  \A c \in DOMAIN accounts :
    \A i \in 1..Len(accounts[c].movimentacoes) :
      LET m == accounts[c].movimentacoes[i]
      IN  /\ m.total_credito = FAdd(m.credito_capital, m.credito_custeio)
          /\ m.total_debito = FAdd(m.debito_capital, m.debito_custeio)
          /\ m.total_rendimento = FAdd(m.rendimento_capital, m.rendimento_custeio)

\* C10: every stored Movement has total_credito = credito_capital
\* + credito_custeio, total_debito = debito_capital + debito_custeio and
\* total_rendimento = rendimento_capital + rendimento_custeio; and
\* get_saldo_anterior for Total is exactly the sum of its results for
\* Capital and Custeio, for every program and target period.
C10_Totais ==
  \A c \in DOMAIN accounts :
    /\ \A i \in 1..Len(accounts[c].movimentacoes) :
          LET m == accounts[c].movimentacoes[i]
          IN  /\ m.total_credito = FAdd(m.credito_capital, m.credito_custeio)
              /\ m.total_debito = FAdd(m.debito_capital, m.debito_custeio)
              /\ m.total_rendimento = FAdd(m.rendimento_capital, m.rendimento_custeio)
    /\ \A p \in Programas, a \in Anos, m \in MesesAlvo :
          get_saldo_anterior(accounts, c, p, "Total", m, a)
            = FAdd(get_saldo_anterior(accounts, c, p, "Capital", m, a),
                   get_saldo_anterior(accounts, c, p, "Custeio", m, a))

-----------------------------------------------------------------------------
(* The monthly statement                                                   *)

\* the period right after (ano, mes)
Proximo(ano, mes) == IF mes = 12 THEN <<ano + 1, 1>> ELSE <<ano, mes + 1>>

\* the running Capital, Custeio and Total balances of every row of a
\* program's statement are within 1e-6 of get_saldo_anterior at the period
\* that follows the row's month (January of the next year after a
\* December)
SaldoCorrentePerto ==
  \A c \in DOMAIN accounts, a \in Anos :
    \A k \in 1..Len(accounts[c].programas) :
      LET p == accounts[c].programas[k]
          linhas == dados_tabela(accounts, c, p, a)
      IN  \A i \in 1..Len(linhas) :
            LET prox == Proximo(a, linhas[i].Mes)
            IN  /\ Perto(linhas[i].SCapital,
                         get_saldo_anterior(accounts, c, p, "Capital", prox[2], prox[1]))
                /\ Perto(linhas[i].SCusteio,
                         get_saldo_anterior(accounts, c, p, "Custeio", prox[2], prox[1]))
                /\ Perto(linhas[i].STotal,
                         get_saldo_anterior(accounts, c, p, "Total", prox[2], prox[1]))

\* C11: for every account, program of its list and year, the
\* running Capital, Custeio and Total balances of every row of the
\* program's statement equal get_saldo_anterior at the period that follows
\* the row's month (January of the next year after a December).
C11_SaldoCorrente ==
  \A c \in DOMAIN accounts, a \in Anos :
    \A k \in 1..Len(accounts[c].programas) :
      LET p == accounts[c].programas[k]
          linhas == dados_tabela(accounts, c, p, a)
      IN  \A i \in 1..Len(linhas) :
            LET prox == Proximo(a, linhas[i].Mes)
            IN  /\ linhas[i].SCapital
                     = get_saldo_anterior(accounts, c, p, "Capital", prox[2], prox[1])
                /\ linhas[i].SCusteio
                     = get_saldo_anterior(accounts, c, p, "Custeio", prox[2], prox[1])
                /\ linhas[i].STotal
                     = get_saldo_anterior(accounts, c, p, "Total", prox[2], prox[1])

-----------------------------------------------------------------------------
(* Movements stored without a year                                         *)

\* the account with the current year written into every Movement that
\* lacks the field
ComAno(conta_data) ==
  [conta_data EXCEPT
     !.movimentacoes =
        Lista([i \in 1..Len(@) |->
                 IF "ano" \in DOMAIN @[i] THEN @[i]
                 ELSE [f \in DOMAIN @[i] \cup {"ano"} |->
                         IF f = "ano" THEN CurrentYear ELSE @[i][f]]])]

\* the session with every account so completed
SessaoComAno == [c \in DOMAIN accounts |-> ComAno(accounts[c])]

\* the balance resolver, the period editor, the period-replace filter and
\* the monthly statement read a Movement without a year as one of the
\* current year
LeitoresComAnoPadrao ==
  \A c \in DOMAIN accounts, a \in Anos :
    LET movs == accounts[c].movimentacoes
        movsAno == SessaoComAno[c].movimentacoes
    IN  /\ \A p \in Programas, t \in TiposRecurso, m \in {1, 2, 12} :
              get_saldo_anterior(accounts, c, p, t, m, a)
                = get_saldo_anterior(SessaoComAno, c, p, t, m, a)
        /\ \A m \in {1, 2, 12} :
              /\ ComAno([accounts[c] EXCEPT
                            !.movimentacoes = registros_existentes(movs, m, a)]).movimentacoes
                   = registros_existentes(movsAno, m, a)
              /\ ComAno([accounts[c] EXCEPT
                            !.movimentacoes = lista_limpa(movs, m, a)]).movimentacoes
                   = lista_limpa(movsAno, m, a)
        /\ extrato_mensal(accounts, c, a, accounts[c].programas, "Todos")
             = extrato_mensal(SessaoComAno, c, a, accounts[c].programas, "Todos")

\* the demonstrative and the general summary of a year whose summary tab
\* is rendered do the same
ResumoComAnoPadrao ==
  \A c \in DOMAIN accounts, a \in { x \in available_years : resumo_renderizado(available_years, x) } :
    /\ dados_resumo(accounts, c, accounts[c].programas, a)
         = dados_resumo(SessaoComAno, c, accounts[c].programas, a)
    /\ \A k \in 1..Len(accounts[c].programas) :
          demonstrativo(accounts, c, accounts[c].programas[k], a)
            = demonstrativo(SessaoComAno, c, accounts[c].programas[k], a)

\* C12: every reader of the movement list treats a Movement that lacks a
\* year as a Movement of the current calendar year and of no other year:
\* each reader gives what it gives when the current year is written into
\* the Movement.
C12_AnoPadrao == LeitoresComAnoPadrao /\ ResumoComAnoPadrao

-----------------------------------------------------------------------------
(* Renaming an account                                                     *)

Renomeou == last.op = "renomear_conta"

\* C13: a rename whose new name is already the name of an account, in the
\* session or in the durable collection, fails and changes neither the
\* session's accounts nor the durable collection.
C13_NomeExistente ==
  (Renomeou /\ (\/ last.novo_nome \in DOMAIN last.antes
                \/ last.novo_nome \in DOMAIN last.guardado))
    => /\ ~last.sucesso
       /\ accounts = last.antes
       /\ store = last.guardado

\* a rename to a name the session does not list but the collection holds,
\* of an account the collection holds with other data
C13_Witness ==
  /\ Renomeou
  /\ db_conn
  /\ ~last.falhou
  /\ last.novo_nome \notin DOMAIN last.antes
  /\ last.novo_nome \in DOMAIN last.guardado
  /\ last.conta \in DOMAIN last.guardado
  /\ last.guardado[last.conta] # last.guardado[last.novo_nome]

\* the account's data is in the collection s under the name n
Guarda(s, n, dados) == n \in DOMAIN s /\ s[n] = dados

\* C14: the store rename copies first and deletes second: in every state
\* of a call that has read the old document, failures of the copy or of
\* the delete included, the data read is held under the old name or under
\* the new one: before the copy under the old name, between the copy and
\* the delete under both, after the delete under the new name, and after
\* a call that failed still under the old name.
C14_CopiaAntesDeApagar ==
  /\ renomeando.pc = "set"
       => Guarda(store, renomeando.old_name, renomeando.data[1])
  /\ renomeando.pc = "delete"
       => /\ Guarda(store, renomeando.old_name, renomeando.data[1])
          /\ Guarda(store, renomeando.new_name, renomeando.data[1])
  /\ (Renomeou /\ last.dados # <<>>)
       => IF last.sucesso
          THEN /\ Guarda(store, last.novo_nome, last.dados[1])
               /\ last.conta \notin DOMAIN store
          ELSE Guarda(store, last.conta, last.dados[1])

\* a rename whose delete failed after the copy: both names hold the data
C14_Witness ==
  /\ Renomeou
  /\ last.falhou
  /\ last.dados # <<>>
  /\ Guarda(store, last.conta, last.dados[1])
  /\ Guarda(store, last.novo_nome, last.dados[1])
  /\ last.novo_nome \notin DOMAIN last.guardado

-----------------------------------------------------------------------------
(* Failed persistence                                                      *)

\* C15: a period save whose persistence call fails, or that finds no
\* store connection, still replaces the period in the session's account
\* and leaves the durable collection as it was; a period save that
\* persists leaves the durable record of the account equal to the
\* session's record, whatever was lost before.
C15_FalhaDePersistencia ==
  Salvou =>
    LET movs == accounts[last.conta].movimentacoes
        movsAntes == last.antes[last.conta].movimentacoes
    IN  /\ DoPeriodo(movs, last.ano, last.mes) = last.novos
        /\ ForaDoPeriodo(movs, last.ano, last.mes)
             = ForaDoPeriodo(movsAntes, last.ano, last.mes)
        /\ (last.falhou \/ ~db_conn) => store = last.guardado
        /\ (~last.falhou /\ db_conn)
             => /\ last.conta \in DOMAIN store
                /\ store[last.conta] = accounts[last.conta]
                /\ \A c \in DOMAIN store \ {last.conta} :
                      c \in DOMAIN last.guardado /\ store[c] = last.guardado[c]

\* a save that persists after one that did not: before it the session's
\* Movements of the account were not the stored ones
C15_Witness ==
  /\ Salvou
  /\ db_conn
  /\ ~last.falhou
  /\ last.conta \in DOMAIN last.guardado
  /\ last.guardado[last.conta].movimentacoes # last.antes[last.conta].movimentacoes
  /\ ForaDoPeriodo(last.antes[last.conta].movimentacoes, last.ano, last.mes)
       # ForaDoPeriodo(last.guardado[last.conta].movimentacoes, last.ano, last.mes)
  /\ store[last.conta] = accounts[last.conta]

-----------------------------------------------------------------------------
(* Two sessions saving into the same account                               *)

SalvouSessao == last.op \in {"salvar_lancamento", "salvar_lancamento_outra"}

\* the accounts of the session that made the last save
SessaoQueSalvou == IF last.op = "salvar_lancamento" THEN accounts ELSE outra

\* the periods of the explored years
Periodos == Anos \X (1..12)

\* the Movements of a stored account for a period, as a set
ConjuntoDoPeriodo(st, conta, ano, mes) ==
  IF conta \in DOMAIN st
  THEN SeqToSet(DoPeriodo(st[conta].movimentacoes, ano, mes))
  ELSE {}

\* C16 as stated: with two sessions saving periods in any order, the
\* durable account holds, for every period, the Movements of the most
\* recent save of that period: a persisted save puts its records in its
\* own period and leaves every other period of the durable account as the
\* earlier saves left it.
C16_UltimaGravacaoPorPeriodo ==
  (SalvouSessao /\ ~last.falhou)
    => /\ ConjuntoDoPeriodo(store, last.conta, last.ano, last.mes) = SeqToSet(last.novos)
       /\ \A q \in Periodos :
             q # <<last.ano, last.mes>>
               => ConjuntoDoPeriodo(store, last.conta, q[1], q[2])
                    = ConjuntoDoPeriodo(last.guardado, last.conta, q[1], q[2])

\* C16, amended: no conflict is detected and the last write of the whole
\* account wins: a save goes through whatever the other session has
\* stored meanwhile, and after a persisted save the durable account record
\* is the saving session's record, i.e. the new records for the saved
\* period and, for every other period, the Movements that session held,
\* not those the collection held.
C16_UltimaGravacaoDaConta ==
  SalvouSessao =>
    /\ DoPeriodo(SessaoQueSalvou[last.conta].movimentacoes, last.ano, last.mes)
         = last.novos
    /\ ~last.falhou =>
          /\ store[last.conta] = SessaoQueSalvou[last.conta]
          /\ DoPeriodo(store[last.conta].movimentacoes, last.ano, last.mes) = last.novos
          /\ ForaDoPeriodo(store[last.conta].movimentacoes, last.ano, last.mes)
               = ForaDoPeriodo(last.antes[last.conta].movimentacoes, last.ano, last.mes)

\* the second session saves a period after the first one saved another:
\* the first session's period is gone from the collection
C16_Witness ==
  /\ last.op = "salvar_lancamento_outra"
  /\ ~last.falhou
  /\ \E q \in Periodos :
        /\ q # <<last.ano, last.mes>>
        /\ ConjuntoDoPeriodo(last.guardado, last.conta, q[1], q[2])
             = ConjuntoDoPeriodo(accounts, last.conta, q[1], q[2])
        /\ ConjuntoDoPeriodo(store, last.conta, q[1], q[2])
             # ConjuntoDoPeriodo(last.guardado, last.conta, q[1], q[2])

-----------------------------------------------------------------------------
(* Computations without effects                                            *)

Calculou == last.op = "calcular"
Consultou == last.op = "saldo_anterior"

\* C18: a call of calcular_rateio_rendimento or of get_saldo_anterior
\* leaves the session's accounts (programs, opening balances, movements)
\* and the durable collection as they were; the session's ledger differs
\* from the one before the step only after a period save, and then by the
\* replaced period.
C18_SemEfeitos ==
  /\ (Calculou \/ Consultou) => (accounts = last.antes /\ store = last.guardado)
  /\ (last.op # "init" /\ (accounts # last.antes \/ store # last.guardado))
       => /\ Salvou
          /\ DoPeriodo(accounts[last.conta].movimentacoes, last.ano, last.mes)
               = last.novos
          /\ ForaDoPeriodo(accounts[last.conta].movimentacoes, last.ano, last.mes)
               = ForaDoPeriodo(last.antes[last.conta].movimentacoes, last.ano, last.mes)

\* the engine was run on a period and returned records that are not the
\* ones the ledger holds for that period
C18_Witness ==
  /\ Calculou
  /\ last.novos # <<>>
  /\ DoPeriodo(accounts[last.conta].movimentacoes, last.ano, last.mes) # <<>>
  /\ DoPeriodo(accounts[last.conta].movimentacoes, last.ano, last.mes) # last.novos

-----------------------------------------------------------------------------
(* Shape of the monthly statement                                          *)

\* positions of the account's Movements of a program, a year and a month
Posicoes(movs, p, ano, mes) ==
  { i \in 1..Len(movs) :
      movs[i].programa = p /\ MovAno(movs[i]) = ano /\ movs[i].mes_num = mes }

\* the amounts of one column of the rows 1..n of a statement added from
\* the first row to the last
SomaColuna(linhas, n, coluna) == FSum([i \in 1..n |-> linhas[i][coluna]])

\* the row's amounts are the sums of the columns of the rows 1..n, up to
\* the rounding of the additions
SomasDasLinhas(total, linhas, n) ==
  \A coluna \in {"Credito", "RendCap", "RendCust", "RendTotal", "Debito"} :
     Perto(total[coluna], SomaColuna(linhas, n, coluna))

\* the statement of one program and year has the claimed shape
FormaDoExtrato(c, p, ano) ==
  LET movs == accounts[c].movimentacoes
      linhas == extrato_mensal(accounts, c, ano, accounts[c].programas, p)
      quantos == Cardinality(UNION { Posicoes(movs, p, ano, mes) : mes \in 1..12 })
  IN  IF quantos = 0 THEN linhas = <<>>
      ELSE /\ Len(linhas) = quantos + 1
           /\ \A i \in 1..quantos :
                 /\ linhas[i].Programa = p
                 /\ \E k \in Posicoes(movs, p, ano, linhas[i].Mes) :
                       /\ linhas[i].Credito = movs[k].total_credito
                       /\ linhas[i].RendCap = movs[k].rendimento_capital
                       /\ linhas[i].RendCust = movs[k].rendimento_custeio
                       /\ linhas[i].RendTotal = movs[k].total_rendimento
                       /\ linhas[i].Debito = movs[k].total_debito
           /\ \A mes \in 1..12 :
                 Cardinality({ i \in 1..quantos : linhas[i].Mes = mes })
                   = Cardinality(Posicoes(movs, p, ano, mes))
           /\ \A i \in 1..quantos, j \in 1..quantos :
                 i < j => linhas[i].Mes <= linhas[j].Mes
           /\ LET total == linhas[quantos + 1]
              IN  /\ total.Programa = "TOTAL"
                  /\ SomasDasLinhas(total, linhas, quantos)
                  /\ total.SCapital = linhas[quantos].SCapital
                  /\ total.SCusteio = linhas[quantos].SCusteio
                  /\ total.STotal = linhas[quantos].STotal

\* the statements of the single programs, one after the other in the order
\* of the account's program list
UmAposOutro(c, ano) ==
  LET programas == accounts[c].programas
      junto[i \in 0..Len(programas)] ==
        IF i = 0 THEN <<>>
        ELSE junto[i - 1] \o extrato_mensal(accounts, c, ano, programas, programas[i])
  IN  junto[Len(programas)]

\* C19: the monthly statement of a program and a year has one row per
\* stored Movement of that program in that year and no other row, in
\* ascending order of month, and, when there is a row, one closing TOTAL
\* row with the sums of credit, interest and debit of the rows (sums of
\* floats, compared within 2^-20) and the running balances of the last
\* row; the statement of all programs is the single statements one after
\* the other in the order of the program list.
C19_FormaDoExtrato ==
  \A c \in DOMAIN accounts, ano \in Anos :
    /\ \A k \in 1..Len(accounts[c].programas) :
          FormaDoExtrato(c, accounts[c].programas[k], ano)
    /\ extrato_mensal(accounts, c, ano, accounts[c].programas, "Todos")
         = UmAposOutro(c, ano)

\* the statement of all programs was shown: two programs have rows, one of
\* them for two months whose balances differ, and one month of the year has
\* no Movement
C19_Witness ==
  /\ last.op = "ver_extrato"
  /\ last.prog = "Todos"
  /\ Cardinality({ i \in 1..Len(last.novos) : last.novos[i].Programa = "TOTAL" }) = 2
  /\ \E i \in 1..Len(last.novos) - 2 :
        /\ last.novos[i].Programa = last.novos[i + 1].Programa
        /\ last.novos[i].Mes < last.novos[i + 1].Mes
        /\ last.novos[i].SCapital # last.novos[i + 1].SCapital
        /\ last.novos[i + 2].Programa = "TOTAL"
  /\ \E mes \in 1..12 : \A i \in 1..Len(last.novos) : last.novos[i].Mes # mes

-----------------------------------------------------------------------------
(* Later periods are not allocated again                                   *)

MudouSaldoInicial == last.op = "salvar_saldo_inicial"

\* C20: a save of a period, and a change of a program's opening balance,
\* leave the stored Movements of every other period exactly as they were,
\* interest included: a later period keeps the allocation of its own last
\* save although its base balances are no longer those it was computed
\* from.
C20_SemRecalculo ==
  /\ Salvou =>
        \A q \in Periodos :
          q # <<last.ano, last.mes>>
            => DoPeriodo(accounts[last.conta].movimentacoes, q[1], q[2])
                 = DoPeriodo(last.antes[last.conta].movimentacoes, q[1], q[2])
  /\ MudouSaldoInicial =>
        /\ accounts[last.conta].movimentacoes = last.antes[last.conta].movimentacoes
        /\ \A c \in DOMAIN accounts \ {last.conta} : accounts[c] = last.antes[c]

\* an earlier period was saved again while a later period of the account
\* holds interest: the balance before that later period is no longer the
\* one its interest was allocated on
C20_Witness ==
  /\ Salvou
  /\ \E i \in 1..Len(accounts[last.conta].movimentacoes) :
        LET m == accounts[last.conta].movimentacoes[i]
        IN  /\ Ordinal(MovAno(m), m.mes_num) > Ordinal(last.ano, last.mes)
            /\ ~EhZero(m.total_rendimento)
            /\ get_saldo_anterior(accounts, last.conta, m.programa, "Total",
                                   m.mes_num, MovAno(m))
                 # get_saldo_anterior(last.antes, last.conta, m.programa, "Total",
                                      m.mes_num, MovAno(m))

-----------------------------------------------------------------------------
(* Movements of a deleted program                                          *)

ExcluiuPrograma == last.op = "excluir_programa"
AdicionouPrograma == last.op = "adicionar_programa"

\* the sum of the components of the program's Movements before (ano, mes)
SomaAnteriores(movs, programa, tipo, mes, ano) ==
  LET ant == Anteriores(movs, programa, mes, ano)
  IN  FSum([i \in 1..Len(ant) |-> Componente(ant[i], tipo)])

\* C21: deleting a program takes it out of the account's program list and
\* drops its opening balance, and keeps every Movement of the account; a
\* Movement leaves an account of the session only by a save of its own
\* period (a reload replaces the session by the collection); adding a
\* program gives it the opening balance 0 and keeps the Movements, so the
\* balance of a program added again is the sum of the Movements that
\* survived its deletion.
C21_LancamentosDoExcluido ==
  /\ ExcluiuPrograma =>
        /\ last.prog \notin SeqToSet(accounts[last.conta].programas)
        /\ last.prog \notin DOMAIN accounts[last.conta].saldos_iniciais
        /\ accounts[last.conta].movimentacoes = last.antes[last.conta].movimentacoes
  /\ last.op \notin {"init", "recarregar", "recarregando"} =>
        \A c \in DOMAIN accounts \cap DOMAIN last.antes :
          \A i \in 1..Len(last.antes[c].movimentacoes) :
            LET m == last.antes[c].movimentacoes[i]
            IN  m \notin SeqToSet(accounts[c].movimentacoes)
                  => /\ Salvou
                     /\ c = last.conta
                     /\ m.mes_num = last.mes
                     /\ MovAno(m) = last.ano
  /\ AdicionouPrograma =>
        /\ accounts[last.conta].movimentacoes = last.antes[last.conta].movimentacoes
        /\ accounts[last.conta].saldos_iniciais[last.prog]
             = [Capital |-> FZero, Custeio |-> FZero]
        /\ \A a \in Anos, mes \in MesesAlvo, t \in {"Capital", "Custeio"} :
              get_saldo_anterior(accounts, last.conta, last.prog, t, mes, a)
                = SomaAnteriores(last.antes[last.conta].movimentacoes, last.prog, t, mes, a)

\* a program was added whose name the account's Movements already carry,
\* and which had no opening balance: its balance at the end of the year is
\* not 0
C21_Witness ==
  /\ AdicionouPrograma
  /\ last.prog \notin DOMAIN last.antes[last.conta].saldos_iniciais
  /\ \E i \in 1..Len(last.antes[last.conta].movimentacoes) :
        last.antes[last.conta].movimentacoes[i].programa = last.prog
  /\ ~EhZero(get_saldo_anterior(accounts, last.conta, last.prog, "Total", 12, CurrentYear))

-----------------------------------------------------------------------------
(* The session's side of a rename                                          *)

\* the conditions for the store rename to go through: a connection, the
\* new name free and the old document present in the collection, no call
\* raised
RenomeouNoStore ==
  /\ db_conn
  /\ last.novo_nome \notin DOMAIN last.guardado
  /\ last.conta \in DOMAIN last.guardado
  /\ ~last.falhou

\* C22: when the rename handler calls the store rename, the session's
\* accounts change if and only if the store rename returned success, which
\* it does exactly when it went through: without a
\* connection, without the old document in the collection, or with a store
\* call that raised, the session's accounts are as before; on success the
\* account's record is under the new name as it was under the old one, the
\* old name is gone and the other accounts are untouched.
C22_RenomeiaSeSucesso ==
  (Renomeou /\ last.novo_nome \notin DOMAIN last.antes)
    => IF last.sucesso
       THEN /\ RenomeouNoStore
            /\ DOMAIN accounts = (DOMAIN last.antes \ {last.conta}) \cup {last.novo_nome}
            /\ accounts[last.novo_nome] = last.antes[last.conta]
            /\ \A c \in DOMAIN accounts \ {last.novo_nome} : accounts[c] = last.antes[c]
            /\ last.conta \notin DOMAIN store
            /\ store[last.novo_nome] = last.guardado[last.conta]
       ELSE /\ ~RenomeouNoStore
            /\ accounts = last.antes

\* a rename that succeeded for an account whose session record was ahead of
\* the stored one
C22_Witness ==
  /\ Renomeou
  /\ last.sucesso
  /\ last.novo_nome \in DOMAIN accounts
  /\ last.conta \notin DOMAIN accounts
  /\ accounts[last.novo_nome] # store[last.novo_nome]

-----------------------------------------------------------------------------
(* Reload                                                                  *)

Recarregou == last.op = "recarregar"

\* C23: after a reload that reached the collection, the session's accounts
\* are exactly the accounts of the collection, names and records, and the
\* collection is as it was: whatever the session held that had not been
\* persisted (a saved period, a created account, a deleted account) is
\* gone from the session.
C23_Recarga ==
  (Recarregou /\ db_conn /\ ~last.falhou)
    => /\ accounts = store
       /\ store = last.guardado
       /\ available_years = anos_encontrados(store, empenhos_global)

\* a reload after a step whose store call failed: the session held accounts
\* that differed from the collection's
C23_Witness ==
  /\ Recarregou
  /\ db_conn
  /\ ~last.falhou
  /\ last.antes # last.guardado
  /\ last.antes # <<>>
  /\ accounts = store

=============================================================================
